---- MODULE Spec2Model ----
(***************************************************************************)
(* Model of the PAIERO payroll engine: the progressive income tax          *)
(* calculator (business/tax_calculator.py) and the payroll calculator      *)
(* (business/payroll_calculator.py).                                        *)
(*                                                                         *)
(* Numbers.  The program computes with Python floats and rounds results    *)
(* with round(x, 2).  The model computes with exact rationals: a rational  *)
(* is a record [w, f, d] standing for w + f/d with 0 <= f < d, kept in      *)
(* lowest terms.  Amounts that enter or leave a function are integers in   *)
(* cents (1/100 of a currency unit).  Round2 rounds a rational to the      *)
(* nearest cent; the float result differs from the exact one by far less   *)
(* than a cent, so round(x, 2) and Round2 agree except on an exact         *)
(* half-cent tie, which Round2 resolves to the even cent.                  *)
(***************************************************************************)
EXTENDS Integers, Naturals, Sequences, FiniteSets, TLC

VARIABLES
    brackets,   \* TaxCalculator.brackets, the table the engine consumes
    tax_in,     \* the incomes (cents) a caller passes to calculate_annual_tax, in order
    tax_out,    \* the taxes (cents) the calls made so far returned
    mtax_in,    \* the [gross, reduction] arguments of the calculate_monthly_tax calls
    mtax_out,   \* the monthly taxes (cents) the calls made so far returned
    pay_in,     \* the PayrollInputs passed to PayrollCalculator.calculate, in order
    pay_out,    \* the PayrollResults the calls made so far returned
    status_in,      \* the [status_code, base_salary] arguments of the lookups to make
    allowance_out,  \* what the calculate_family_allowance calls made so far returned
    reduction_out,  \* what the get_family_charge_reduction calls made so far returned
    quick_in,   \* the arguments of the calculate_payroll calls to make, in order
    quick_out,  \* the PayrollResults the calculate_payroll calls made so far returned
    tax_brackets,  \* the rows of the tax_brackets table of the database, by min_income
    payroll_records,  \* the rows of the payroll_records table
    payroll_periods,  \* the rows of the payroll_periods table
    last_call,  \* the last PayrollRepository call made and what it returned
    employees,  \* the employees table: the status code of each employee_id
    screen,     \* the PayrollScreen: current_period, payroll_records, buttons
    report,     \* what the last PayrollScreen handler did and told the user
    calls       \* the create_payroll_record calls in progress on the connection

vars == <<brackets, tax_in, tax_out, mtax_in, mtax_out, pay_in, pay_out,
          status_in, allowance_out, reduction_out, quick_in, quick_out,
          tax_brackets, payroll_records, payroll_periods, last_call,
          employees, screen, report, calls>>

(***************************************************************************)
(* Exact rational arithmetic                                               *)
(***************************************************************************)
RECURSIVE Gcd(_, _)
Gcd(a, b) == IF b = 0 THEN a ELSE Gcd(b, a % b)

\* w + n/d for any integer n and d > 0, normalised to 0 <= f < d, lowest terms
QNorm(w, n, d) ==
    LET ww == w + (n \div d)
        ff == n % d
        g  == Gcd(d, ff)
    IN  [w |-> ww, f |-> ff \div g, d |-> d \div g]

QInt(i) == [w |-> i, f |-> 0, d |-> 1]

\* an integer amount of cents as a rational number of currency units
QCents(c) == QNorm(0, c, 100)

QAdd(x, y) ==
    LET g == Gcd(x.d, y.d)
        l == (x.d \div g) * y.d
    IN  QNorm(x.w + y.w, x.f * (l \div x.d) + y.f * (l \div y.d), l)

QNeg(x) == IF x.f = 0 THEN [w |-> 0 - x.w, f |-> 0, d |-> 1]
           ELSE [w |-> 0 - x.w - 1, f |-> x.d - x.f, d |-> x.d]

QSub(x, y) == QAdd(x, QNeg(y))

\* x * a / b for integers a >= 0, b > 0
QScale(x, a, b) ==
    LET wq == x.w \div b
        wr == x.w % b
        q  == (wr * a) \div b
        r  == (wr * a) % b
    IN  QNorm(wq * a + q, r * x.d + x.f * a, b * x.d)

QLess(x, y) == QSub(x, y).w < 0
QLeq(x, y) == ~QLess(y, x)
QMax(x, y) == IF QLess(x, y) THEN y ELSE x

\* round(x, 2) as an integer number of cents
Round2(x) ==
    LET t1 == 10 * x.f
        a  == t1 \div x.d
        r1 == t1 % x.d
        t2 == 10 * r1
        b  == t2 \div x.d
        r2 == t2 % x.d
        c  == 100 * x.w + 10 * a + b
    IN  IF 2 * r2 > x.d THEN c + 1
        ELSE IF 2 * r2 < x.d THEN c
        ELSE IF c % 2 = 0 THEN c ELSE c + 1

(***************************************************************************)
(* TaxCalculator (business/tax_calculator.py)                              *)
(***************************************************************************)
\* max_income = None of the highest bracket
None == -1

\* A TaxBracket: min_income and max_income in currency units, tax_rate in
\* thousandths (0.05 is 50), cumulative_tax in cents.
TaxBracket(min_income, max_income, rate_milli, cumulative_units) ==
    [min_income |-> min_income, max_income |-> max_income,
     tax_rate |-> rate_milli, cumulative_tax |-> 100 * cumulative_units]

DEFAULT_BRACKETS == <<
    TaxBracket(0, 330000, 0, 0),
    TaxBracket(330001, 578400, 50, 0),
    TaxBracket(578401, 1176400, 120, 12420),
    TaxBracket(1176401, 1789733, 180, 84180),
    TaxBracket(1789734, 2384195, 260, 194579),
    TaxBracket(2384196, 3494130, 310, 349134),
    TaxBracket(3494131, None, 370, 693217) >>

\* taxable_in_bracket with half-open brackets: the "+ 1" of the inclusive
\* boundary convention left out
taxable_in_bracket_half_open(bracket, income) ==
    IF bracket.max_income = None
    THEN QSub(income, QInt(bracket.min_income))
    ELSE IF QLess(QInt(bracket.max_income), income)
    THEN QInt(bracket.max_income - bracket.min_income)
    ELSE QSub(income, QInt(bracket.min_income))

\* the taxable amount of one visited bracket (lines 74-82)
taxable_in_bracket(bracket, income) ==
    IF bracket.max_income = None
    THEN QAdd(QSub(income, QInt(bracket.min_income)), QInt(1))
    ELSE IF QLess(QInt(bracket.max_income), income)
    THEN QInt(bracket.max_income - bracket.min_income + 1)
    ELSE QAdd(QSub(income, QInt(bracket.min_income)), QInt(1))

\* bracket_tax = taxable_in_bracket * bracket.tax_rate (line 85)
bracket_tax(bracket, income) ==
    QScale(taxable_in_bracket(bracket, income), bracket.tax_rate, 1000)

\* the for loop without its break: every bracket is visited
RECURSIVE sum_brackets_no_break(_, _, _)
sum_brackets_no_break(brs, i, income) ==
    IF i > Len(brs) THEN QInt(0)
    ELSE QAdd(bracket_tax(brs[i], income), sum_brackets_no_break(brs, i + 1, income))

\* the for loop of calculate_annual_tax from bracket i on: it breaks at the
\* first bracket whose min_income exceeds the income
RECURSIVE sum_brackets(_, _, _)
sum_brackets(brs, i, income) ==
    IF i > Len(brs) THEN QInt(0)
    ELSE IF QLess(income, QInt(brs[i].min_income)) THEN QInt(0)
    ELSE QAdd(bracket_tax(brs[i], income), sum_brackets(brs, i + 1, income))

\* the brackets that contain the income, both boundaries included
containing(brs, income) ==
    { i \in 1..Len(brs) :
        /\ QLeq(QInt(brs[i].min_income), income)
        /\ (brs[i].max_income = None \/ QLeq(income, QInt(brs[i].max_income))) }

\* the shortcut through the table's cumulative_tax column:
\* cumulative_tax + (income - min_income + 1) * rate of the containing bracket
shortcut_tax(bracket, income) ==
    Round2(QAdd(QCents(bracket.cumulative_tax),
                QScale(QAdd(QSub(income, QInt(bracket.min_income)), QInt(1)),
                       bracket.tax_rate, 1000)))

\* calculate_annual_tax computed by the shortcut instead of the loop
calculate_annual_tax_shortcut(brs, income) ==
    IF QLeq(income, QInt(0)) THEN 0
    ELSE IF containing(brs, income) = {} THEN Round2(sum_brackets(brs, 1, income))
    ELSE shortcut_tax(brs[CHOOSE i \in containing(brs, income) : TRUE], income)

\* calculate_annual_tax: income a rational, the result in cents
calculate_annual_tax(brs, income) ==
    IF QLeq(income, QInt(0)) THEN 0
    ELSE Round2(sum_brackets(brs, 1, income))

\* calculate_monthly_tax with the reduction applied as a surcharge
calculate_monthly_tax_surcharge(brs, monthly_gross_salary, reduction_pct) ==
    LET annual_gross == QScale(monthly_gross_salary, 12, 1)
        annual_taxable == IF reduction_pct > 0
                          THEN QScale(annual_gross, 100 + reduction_pct, 100)
                          ELSE annual_gross
    IN  Round2(QScale(QCents(calculate_annual_tax(brs, annual_taxable)), 1, 12))

\* calculate_monthly_tax: the gross salary a rational, the family charge
\* reduction in percent (0.10 is 10), the result in cents
calculate_monthly_tax(brs, monthly_gross_salary, reduction_pct) ==
    LET annual_gross == QScale(monthly_gross_salary, 12, 1)
        annual_taxable == IF reduction_pct > 0
                          THEN QScale(annual_gross, 100 - reduction_pct, 100)
                          ELSE annual_gross
        annual_tax == calculate_annual_tax(brs, annual_taxable)
    IN  Round2(QScale(QCents(annual_tax), 1, 12))

(***************************************************************************)
(* Family charge reduction (TaxCalculator.get_family_charge_reduction)     *)
(* A status code is a sequence of one-character strings.                   *)
(***************************************************************************)
Digits == <<"0", "1", "2", "3", "4", "5", "6", "7", "8", "9">>

IsDigit(c) == \E i \in 1..10 : Digits[i] = c

DigitValue(c) == (CHOOSE i \in 1..10 : Digits[i] = c) - 1

IsSpace(c) == c = " "

\* str.upper() on one character
UpperChar(c) == CASE c = "c" -> "C" [] c = "m" -> "M" [] c = "x" -> "X" [] OTHER -> c

Upper(str) == [i \in 1..Len(str) |-> UpperChar(str[i])]

RECURSIVE LStrip(_)
LStrip(str) == IF str # << >> /\ IsSpace(Head(str)) THEN LStrip(Tail(str)) ELSE str

RECURSIVE RStrip(_)
RStrip(str) == IF str # << >> /\ IsSpace(str[Len(str)])
               THEN RStrip(SubSeq(str, 1, Len(str) - 1)) ELSE str

\* str.strip()
Strip(str) == RStrip(LStrip(str))

RECURSIVE DigitsValue(_, _)
DigitsValue(str, acc) ==
    IF str = << >> THEN acc ELSE DigitsValue(Tail(str), 10 * acc + DigitValue(Head(str)))

\* int(str): surrounding blanks and one sign are accepted, then digits only;
\* anything else raises ValueError
ParseInt(str) ==
    LET t == Strip(str)
        signed == t # << >> /\ Head(t) \in {"+", "-"}
        body == IF signed THEN Tail(t) ELSE t
    IN  IF body = << >> \/ \E i \in 1..Len(body) : ~IsDigit(body[i])
        THEN [ok |-> FALSE, value |-> 0]
        ELSE [ok |-> TRUE,
              value |-> IF signed /\ Head(t) = "-" THEN 0 - DigitsValue(body, 0)
                        ELSE DigitsValue(body, 0)]

\* what a lookup returns when status_code[0] raises IndexError (line 141):
\* the exception leaves the function
IndexError == -2

\* the reduction lookup with the last band of each letter left open above
get_family_charge_reduction_open_band(status_code) ==
    IF status_code = << >> THEN 0
    ELSE LET code == Strip(Upper(status_code))
         IN  IF code = << >> THEN IndexError
             ELSE LET marital_status == code[1]
                      number == ParseInt(Tail(code))
                  IN  IF ~number.ok THEN 0
                      ELSE IF marital_status = "C"
                      THEN (IF 0 <= number.value /\ number.value <= 4 THEN 0
                            ELSE IF 5 <= number.value /\ number.value <= 9 THEN 10
                            ELSE IF 10 <= number.value THEN 15
                            ELSE 0)
                      ELSE IF marital_status = "M"
                      THEN (IF 0 <= number.value /\ number.value <= 4 THEN 10
                            ELSE IF 5 <= number.value /\ number.value <= 9 THEN 20
                            ELSE IF 10 <= number.value THEN 25
                            ELSE 0)
                      ELSE 0

\* get_family_charge_reduction: the reduction in percent, or IndexError
get_family_charge_reduction(status_code) ==
    IF status_code = << >> THEN 0
    ELSE LET code == Strip(Upper(status_code))
         IN  IF code = << >> THEN IndexError
             ELSE LET marital_status == code[1]
                      number == ParseInt(Tail(code))
                  IN  IF ~number.ok THEN 0
                      ELSE IF marital_status = "C"
                      THEN (IF 0 <= number.value /\ number.value <= 4 THEN 0
                            ELSE IF 5 <= number.value /\ number.value <= 9 THEN 10
                            ELSE IF 10 <= number.value /\ number.value <= 15 THEN 15
                            ELSE 0)
                      ELSE IF marital_status = "M"
                      THEN (IF 0 <= number.value /\ number.value <= 4 THEN 10
                            ELSE IF 5 <= number.value /\ number.value <= 9 THEN 20
                            ELSE IF 10 <= number.value /\ number.value <= 20 THEN 25
                            ELSE 0)
                      ELSE 0

(***************************************************************************)
(* PayrollCalculator (business/payroll_calculator.py)                      *)
(* Rates are in ten-thousandths (0.036 is 360).                            *)
(***************************************************************************)
INPS_EMPLOYEE_RATE == 360
INPS_EMPLOYER_RATE == 1640
AMO_EMPLOYEE_RATE == 306
AMO_EMPLOYER_RATE == 350

\* standard working days per month
standard_days == 26

\* PayrollInput with the dataclass defaults; amounts in cents
PayrollInput(employee_id, base_salary, status_code) ==
    [employee_id |-> employee_id, base_salary |-> base_salary,
     status_code |-> status_code,
     days_worked |-> 26, days_absent |-> 0,
     transport_allowance |-> 0, family_allowance |-> 0,
     responsibility_allowance |-> 0, risk_allowance |-> 0,
     housing_allowance |-> 0, overtime_amount |-> 0, bonus_amount |-> 0,
     ind_spec_1973 |-> 0, cher_vie_1974 |-> 0,
     loan_deduction |-> 0, advance_deduction |-> 0, other_deductions |-> 0]

\* _calculate_adjusted_base with the daily rate of a 30-day month
calculate_adjusted_base_30_day_month(base_salary, days_worked, days_absent) ==
    IF days_absent = 0 THEN base_salary
    ELSE QMax(QInt(0), QSub(base_salary, QScale(QScale(base_salary, 1, 30), days_absent, 1)))

\* _calculate_adjusted_base without the final max(0, ...)
calculate_adjusted_base_unclamped(base_salary, days_worked, days_absent) ==
    IF days_absent = 0 THEN base_salary
    ELSE QSub(base_salary,
              QScale(QScale(base_salary, 1, standard_days), days_absent, 1))

\* _calculate_adjusted_base (lines 235-263): base_salary a rational
calculate_adjusted_base(base_salary, days_worked, days_absent) ==
    IF days_absent = 0 THEN base_salary
    ELSE LET daily_rate == QScale(base_salary, 1, standard_days)
             absence_deduction == QScale(daily_rate, days_absent, 1)
             adjusted_base == QSub(base_salary, absence_deduction)
         IN  QMax(QInt(0), adjusted_base)

\* the transport allowance always auto-calculated, the input ignored
transport_always_default(input_transport, adjusted_base) ==
    QScale(adjusted_base, 1, 10)

\* transport = input_data.transport_allowance or (adjusted_base * 0.10)
transport_allowance(input_transport, adjusted_base) ==
    IF input_transport # 0 THEN QCents(input_transport)
    ELSE QScale(adjusted_base, 1, 10)

\* the sum without the bonus: the eight amounts of the data model's list
total_allowances_without_bonus(transport, input_data) ==
    QAdd(transport,
         QCents(input_data.family_allowance + input_data.responsibility_allowance
                + input_data.risk_allowance + input_data.housing_allowance
                + input_data.overtime_amount
                + input_data.ind_spec_1973 + input_data.cher_vie_1974))

\* total_allowances (lines 148-151)
total_allowances(transport, input_data) ==
    QAdd(transport,
         QCents(input_data.family_allowance + input_data.responsibility_allowance
                + input_data.risk_allowance + input_data.housing_allowance
                + input_data.overtime_amount + input_data.bonus_amount
                + input_data.ind_spec_1973 + input_data.cher_vie_1974))

\* the contribution base taken to be the whole gross salary
inps_amo_base_gross(adjusted_base, transport, input_data) ==
    QAdd(adjusted_base, total_allowances(transport, input_data))

\* inps_amo_base (line 159)
inps_amo_base(adjusted_base, transport, input_data) ==
    QAdd(QAdd(adjusted_base, transport),
         QCents(input_data.family_allowance
                + input_data.ind_spec_1973 + input_data.cher_vie_1974))

\* the family allowance with the first band of a single employee one
\* dependent wider (0..2) and the second starting at 3
calculate_family_allowance_wide_first_band(status_code, base_salary) ==
    IF status_code = << >> THEN 0
    ELSE LET code == Strip(Upper(status_code))
         IN  IF code = << >> THEN IndexError
             ELSE LET marital_status == code[1]
                      number == ParseInt(Tail(code))
                  IN  IF ~number.ok THEN 0
                      ELSE IF marital_status = "C"
                      THEN (IF 0 <= number.value /\ number.value <= 2 THEN 1500000
                            ELSE IF 3 <= number.value /\ number.value <= 4 THEN 2500000
                            ELSE IF number.value >= 5 THEN 3500000
                            ELSE 0)
                      ELSE IF marital_status = "M"
                      THEN (IF 0 <= number.value /\ number.value <= 2 THEN 2500000
                            ELSE IF 3 <= number.value /\ number.value <= 4 THEN 3500000
                            ELSE IF 5 <= number.value /\ number.value <= 7 THEN 4500000
                            ELSE IF number.value >= 8 THEN 5500000
                            ELSE 0)
                      ELSE 0

\* PayrollCalculator.calculate_family_allowance (lines 265-314): the
\* allowance in cents, or IndexError (status_code[0] of an empty string,
\* line 288); base_salary is not read
calculate_family_allowance(status_code, base_salary) ==
    IF status_code = << >> THEN 0
    ELSE LET code == Strip(Upper(status_code))
         IN  IF code = << >> THEN IndexError
             ELSE LET marital_status == code[1]
                      number == ParseInt(Tail(code))
                  IN  IF ~number.ok THEN 0
                      ELSE IF marital_status = "C"
                      THEN (IF 0 <= number.value /\ number.value <= 1 THEN 1500000
                            ELSE IF 2 <= number.value /\ number.value <= 4 THEN 2500000
                            ELSE IF number.value >= 5 THEN 3500000
                            ELSE 0)
                      ELSE IF marital_status = "M"
                      THEN (IF 0 <= number.value /\ number.value <= 2 THEN 2500000
                            ELSE IF 3 <= number.value /\ number.value <= 4 THEN 3500000
                            ELSE IF 5 <= number.value /\ number.value <= 7 THEN 4500000
                            ELSE IF number.value >= 8 THEN 5500000
                            ELSE 0)
                      ELSE 0

\* the result of a call that raised instead of returning
Raised == [raised |-> TRUE]

\* net salary with the loan, advance and other deductions taken off as well
net_salary_after_deductions(gross_salary, inps_employee, amo_employee, income_tax, other) ==
    QSub(QSub(QSub(QSub(gross_salary, inps_employee), amo_employee), income_tax), other)

\* net salary before the income tax is taken off
net_salary_before_tax(gross_salary, inps_employee, amo_employee, income_tax, other) ==
    QSub(QSub(gross_salary, inps_employee), amo_employee)

\* net_salary (line 178): gross less INPS, AMO and income tax; the loan,
\* advance and other deductions (other) are no part of it
net_salary(gross_salary, inps_employee, amo_employee, income_tax, other) ==
    QSub(QSub(QSub(gross_salary, inps_employee), amo_employee), income_tax)

\* the CFE contribution taken at 3% instead of 3.5%
contribution_cfe_3_percent(gross_salary) ==
    QScale(gross_salary, 30, 1000)

\* contribution_cfe (line 189): 3.5% of the gross salary
contribution_cfe(gross_salary) ==
    QScale(gross_salary, 35, 1000)

\* PayrollCalculator.calculate (lines 120-233): the PayrollResult, every
\* amount rounded to cents
calculate(brs, input_data) ==
    LET adjusted_base == calculate_adjusted_base(QCents(input_data.base_salary),
                             input_data.days_worked, input_data.days_absent)
        transport == transport_allowance(input_data.transport_allowance, adjusted_base)
        total == total_allowances(transport, input_data)
        gross_salary == QAdd(adjusted_base, total)
        base == inps_amo_base(adjusted_base, transport, input_data)
        inps_employee == QScale(base, INPS_EMPLOYEE_RATE, 10000)
        amo_employee == QScale(base, AMO_EMPLOYEE_RATE, 10000)
        reduction == get_family_charge_reduction(input_data.status_code)
        income_tax == QCents(calculate_monthly_tax(brs, gross_salary, reduction))
        other == QCents(input_data.loan_deduction + input_data.advance_deduction
                        + input_data.other_deductions)
        total_deductions == QAdd(QAdd(QAdd(inps_employee, amo_employee), income_tax), other)
        net == net_salary(gross_salary, inps_employee, amo_employee, income_tax, other)
        net_to_pay == QSub(net, other)
        inps_employer == QScale(base, INPS_EMPLOYER_RATE, 10000)
        amo_employer == QScale(base, AMO_EMPLOYER_RATE, 10000)
        taxe_logement == QScale(gross_salary, 10, 1000)
        taxe_formation == QScale(gross_salary, 20, 1000)
        taxe_emploi == QScale(gross_salary, 20, 1000)
        cfe == contribution_cfe(gross_salary)
        total_labor_taxes == QAdd(QAdd(QAdd(taxe_logement, taxe_formation), taxe_emploi),
                                  cfe)
        total_employer_cost == QAdd(QAdd(inps_employer, amo_employer), total_labor_taxes)
        total_cost == QAdd(gross_salary, total_employer_cost)
    IN  IF reduction = IndexError THEN Raised
        ELSE [raised |-> FALSE,
              employee_id |-> input_data.employee_id,
              base_salary |-> Round2(QCents(input_data.base_salary)),
              days_worked |-> input_data.days_worked,
              days_absent |-> input_data.days_absent,
              adjusted_base_salary |-> Round2(adjusted_base),
              transport_allowance |-> Round2(transport),
              family_allowance |-> Round2(QCents(input_data.family_allowance)),
              responsibility_allowance |-> Round2(QCents(input_data.responsibility_allowance)),
              risk_allowance |-> Round2(QCents(input_data.risk_allowance)),
              housing_allowance |-> Round2(QCents(input_data.housing_allowance)),
              overtime_amount |-> Round2(QCents(input_data.overtime_amount)),
              bonus_amount |-> Round2(QCents(input_data.bonus_amount)),
              ind_spec_1973 |-> Round2(QCents(input_data.ind_spec_1973)),
              cher_vie_1974 |-> Round2(QCents(input_data.cher_vie_1974)),
              total_allowances |-> Round2(total),
              gross_salary |-> Round2(gross_salary),
              inps_employee |-> Round2(inps_employee),
              amo_employee |-> Round2(amo_employee),
              income_tax_net |-> Round2(income_tax),
              loan_deduction |-> Round2(QCents(input_data.loan_deduction)),
              advance_deduction |-> Round2(QCents(input_data.advance_deduction)),
              other_deductions |-> Round2(QCents(input_data.other_deductions)),
              total_deductions |-> Round2(total_deductions),
              net_salary |-> Round2(net),
              net_to_pay |-> Round2(net_to_pay),
              inps_employer |-> Round2(inps_employer),
              amo_employer |-> Round2(amo_employer),
              total_employer_cost |-> Round2(total_employer_cost),
              taxe_logement |-> Round2(taxe_logement),
              taxe_formation |-> Round2(taxe_formation),
              taxe_emploi |-> Round2(taxe_emploi),
              contribution_cfe |-> Round2(cfe),
              total_labor_taxes |-> Round2(total_labor_taxes),
              total_cost |-> Round2(total_cost)]

\* calculate_payroll without the family allowance lookup: the dataclass
\* default stands when the caller gives none
calculate_payroll_without_lookup(brs, employee_id, base_salary, status_code, kwargs) ==
    LET defaults == PayrollInput(employee_id, base_salary, status_code)
    IN  calculate(brs, [f \in DOMAIN defaults |->
                           IF f \in DOMAIN kwargs THEN kwargs[f] ELSE defaults[f]])

\* calculate_payroll (lines 318-347): kwargs is a function from PayrollInput
\* field names to values; the family allowance is looked up from the status
\* code unless kwargs gives one, and an exception of the lookup propagates
calculate_payroll(brs, employee_id, base_salary, status_code, kwargs) ==
    LET looked_up == calculate_family_allowance(status_code, QCents(base_salary))
        given == "family_allowance" \in DOMAIN kwargs
        defaults == [PayrollInput(employee_id, base_salary, status_code)
                        EXCEPT !.family_allowance = IF given THEN 0 ELSE looked_up]
        input_data == [f \in DOMAIN defaults |->
                          IF f \in DOMAIN kwargs THEN kwargs[f] ELSE defaults[f]]
    IN  IF ~given /\ looked_up = IndexError THEN Raised
        ELSE calculate(brs, input_data)

(***************************************************************************)
(* Inputs                                                                  *)
(***************************************************************************)
\* how far around each bracket boundary the incomes are sampled
BoundaryReach == 1

BracketEdges ==
    UNION { {DEFAULT_BRACKETS[i].min_income} \cup
            (IF DEFAULT_BRACKETS[i].max_income = None THEN {}
             ELSE {DEFAULT_BRACKETS[i].max_income})
            : i \in 1..Len(DEFAULT_BRACKETS) }

\* annual incomes in cents: every bracket edge and its neighbours, incomes
\* strictly inside each bracket, an income between two brackets, and
\* non-positive incomes
AnnualIncomes ==
    { 100 * (e + k) : e \in BracketEdges, k \in (0 - BoundaryReach)..BoundaryReach }
    \cup { 100 * e + 40 : e \in BracketEdges }
    \cup { 100 * u : u \in {-500000, 100000, 450000, 900000, 1500000,
                             2000000, 3000000, 6780000} }
    \cup { -1, 1, 33000099 }

\* monthly gross salaries in cents: twelfths of the bracket edges, salaries
\* inside each bracket, a salary with cents, zero and a negative salary
MonthlyGross ==
    { 100 * u : u \in {-1000, 0, 1, 27500, 27501, 48200, 48204, 98034,
                        120000, 149144, 198683, 250000, 291178, 565000} }
    \cup { 2750050, 12345678 }

\* family charge reductions in percent, 0 to 100
Reductions == {0, 1, 5, 10, 15, 20, 25, 50, 75, 99, 100}

MonthlyArgs == [gross : MonthlyGross, reduction : Reductions]

\* base salaries in cents, whole currency units
BaseSalaries == {0, 10001200, 50000000}

\* the largest number of days absent, beyond the 26-day standard month
MaxDaysAbsent == 40

DaysAbsent == {0, 1, 13, standard_days, MaxDaysAbsent}

\* the inputs that differ from input x in one respect, and one with every
\* allowance and deduction set; amounts in cents, whole currency units
Variants(x) ==
    { x,
      [x EXCEPT !.days_worked = 13],
      [x EXCEPT !.status_code = <<"M", "5">>],
      [x EXCEPT !.transport_allowance = 2000000],
      [x EXCEPT !.responsibility_allowance = 500000],
      [x EXCEPT !.risk_allowance = 1000000],
      [x EXCEPT !.overtime_amount = 300000],
      [x EXCEPT !.bonus_amount = 700000],
      [x EXCEPT !.loan_deduction = 1500000, !.advance_deduction = 600000,
                !.other_deductions = 200000],
      [x EXCEPT !.status_code = <<"M", "1", "0">>,
                !.transport_allowance = 2000000, !.family_allowance = 2500000,
                !.responsibility_allowance = 500000, !.risk_allowance = 1000000,
                !.housing_allowance = 4000000, !.overtime_amount = 300000,
                !.bonus_amount = 700000, !.ind_spec_1973 = 120000,
                !.cher_vie_1974 = 80000, !.loan_deduction = 1500000,
                !.advance_deduction = 600000, !.other_deductions = 200000] }

PayrollInputs ==
    UNION { Variants([PayrollInput("E1", b, <<"C", "0">>) EXCEPT !.days_absent = d])
            : b \in BaseSalaries, d \in DaysAbsent }

(***************************************************************************)
(* PayrollRepository (database/repositories/payroll_repository.py) over the *)
(* payroll_records and payroll_periods tables. A row of payroll_records is  *)
(* [record_id, period_id, employee_id, cols], cols the other columns, the   *)
(* amounts in cents; None stands for a column the statement leaves to the   *)
(* schema's default. The schema file is not part of the sources: no         *)
(* uniqueness or foreign key constraint is assumed, and a new record_id is  *)
(* any id above those in the table.                                         *)
(***************************************************************************)

\* a value sqlite3 cannot bind to a statement parameter: an int beyond 64
\* bits, a list
Unbindable == -3

\* the sqlite3 error (ProgrammingError, OverflowError) conn.execute raises on
\* such a value, where the caller does not catch it
ProgrammingError == -4

\* x + y of two amounts of a payroll_data; no sum of amounts brings a value
\* beyond 64 bits back into range
Plus(x, y) == IF x = Unbindable \/ y = Unbindable THEN Unbindable ELSE x + y

\* conn.execute binds every parameter of the statement
binds(columns) == \A c \in DOMAIN columns : columns[c] # Unbindable

\* payroll_data.get(key, default)
Get(payroll_data, key, default) ==
    IF key \in DOMAIN payroll_data THEN payroll_data[key] ELSE default

\* the columns of the INSERT of create_payroll_record (lines 166-240)
insert_columns(payroll_data) ==
    LET advances_total == Plus(Plus(Get(payroll_data, "loan_deduction", 0),
                                    Get(payroll_data, "advance_deduction", 0)),
                               Get(payroll_data, "other_deductions", 0))
    IN  [base_salary |-> Get(payroll_data, "base_salary", 0),
         days_worked |-> Get(payroll_data, "days_worked", 26),
         days_absent |-> Get(payroll_data, "days_absent", 0),
         ind_transport |-> Get(payroll_data, "transport_allowance", 0),
         family_allowance |-> Get(payroll_data, "family_allowance", 0),
         responsibility_allowance |-> Get(payroll_data, "responsibility_allowance", 0),
         risk_premium |-> Get(payroll_data, "risk_allowance", 0),
         vehicle_allowance |-> Get(payroll_data, "housing_allowance", 0),
         overtime_pay |-> Get(payroll_data, "overtime_amount", 0),
         ind_spe_1973 |-> Get(payroll_data, "ind_spec_1973", 0),
         ind_cher_vie_1974 |-> Get(payroll_data, "cher_vie_1974", 0),
         gross_salary |-> Get(payroll_data, "gross_salary", 0),
         inps_employee |-> Get(payroll_data, "inps_employee", 0),
         amo_employee |-> Get(payroll_data, "amo_employee", 0),
         income_tax_net |-> Get(payroll_data, "income_tax_net", 0),
         advances_loans_deduction |-> advances_total,
         net_salary |-> Get(payroll_data, "net_salary", 0),
         net_to_pay |-> Get(payroll_data, "net_to_pay", 0),
         inps_employer |-> Get(payroll_data, "inps_employer", 0),
         amo_employer |-> Get(payroll_data, "amo_employer", 0),
         tl_tax |-> Get(payroll_data, "taxe_logement", 0),
         tfp_tax |-> Get(payroll_data, "taxe_formation", 0),
         atej_tax |-> Get(payroll_data, "taxe_emploi", 0),
         cfe_tax |-> Get(payroll_data, "contribution_cfe", 0),
         total_payroll_cost |-> Get(payroll_data, "total_cost", 0)]

\* the columns of the UPDATE of update_payroll_record (lines 256-320)
update_columns(payroll_data) ==
    LET advances_total == Plus(Plus(Get(payroll_data, "loan_deduction", 0),
                                    Get(payroll_data, "advance_deduction", 0)),
                               Get(payroll_data, "other_deductions", 0))
    IN  [base_salary |-> Get(payroll_data, "base_salary", 0),
         days_worked |-> Get(payroll_data, "days_worked", 26),
         days_absent |-> Get(payroll_data, "days_absent", 0),
         ind_transport |-> Get(payroll_data, "transport_allowance", 0),
         family_allowance |-> Get(payroll_data, "family_allowance", 0),
         responsibility_allowance |-> Get(payroll_data, "responsibility_allowance", 0),
         risk_premium |-> Get(payroll_data, "risk_allowance", 0),
         vehicle_allowance |-> Get(payroll_data, "housing_allowance", 0),
         overtime_pay |-> Get(payroll_data, "overtime_amount", 0),
         ind_spe_1973 |-> Get(payroll_data, "ind_spec_1973", 0),
         ind_cher_vie_1974 |-> Get(payroll_data, "cher_vie_1974", 0),
         gross_salary |-> Get(payroll_data, "gross_salary", 0),
         inps_employee |-> Get(payroll_data, "inps_employee", 0),
         amo_employee |-> Get(payroll_data, "amo_employee", 0),
         income_tax_net |-> Get(payroll_data, "income_tax_net", 0),
         advances_loans_deduction |-> advances_total,
         net_salary |-> Get(payroll_data, "net_salary", 0),
         net_to_pay |-> Get(payroll_data, "net_to_pay", 0),
         inps_employer |-> Get(payroll_data, "inps_employer", 0),
         amo_employer |-> Get(payroll_data, "amo_employer", 0),
         tl_tax |-> Get(payroll_data, "taxe_logement", 0),
         tfp_tax |-> Get(payroll_data, "taxe_formation", 0),
         atej_tax |-> Get(payroll_data, "taxe_emploi", 0),
         cfe_tax |-> Get(payroll_data, "contribution_cfe", 0),
         total_payroll_cost |-> Get(payroll_data, "total_cost", 0)]

\* the columns of the INSERT of initialize_period_with_employees (lines
\* 446-451): base salary and the days of a full month, the rest left out
initial_columns(base_salary) ==
    [[c \in DOMAIN insert_columns(<< >>) |-> None]
        EXCEPT !.base_salary = base_salary, !.days_worked = 26, !.days_absent = 0]

\* the existence SELECT with its two arguments in the wrong order: no row
\* ever matches
existing_records_never_found(records, period_id, employee_id) ==
    { r \in records : FALSE }

\* SELECT record_id FROM payroll_records WHERE period_id = ? AND employee_id = ?
existing_records(records, period_id, employee_id) ==
    { r \in records : r.period_id = period_id /\ r.employee_id = employee_id }

\* UPDATE payroll_records SET ... WHERE record_id = ?, committed; an error
\* of the statement is caught, the transaction rolled back
updated_records(records, record_id, payroll_data) ==
    IF binds(update_columns(payroll_data))
    THEN { IF r.record_id = record_id
           THEN [r EXCEPT !.cols = update_columns(payroll_data)]
           ELSE r : r \in records }
    ELSE records

\* the largest record_id of a model run
MaxRecordId == 2

SetMax(ids) == IF ids = {} THEN 0 ELSE CHOOSE i \in ids : \A j \in ids : j <= i

\* the ids an INSERT may give a new row: above every id in the table
NewRecordIds(records) ==
    { i \in 1..MaxRecordId : i > SetMax({ r.record_id : r \in records }) }

\* create_payroll_record (lines 138-242) on a table: what the call can
\* leave in the table and return. The row the SELECT found is updated
\* through update_payroll_record, whose result is not looked at; else a row
\* is inserted, where an error of the statement propagates
create_payroll_record(records, period_id, employee_id, payroll_data) ==
    LET existing == existing_records(records, period_id, employee_id)
    IN  IF existing # {}
        THEN { [records |-> updated_records(records, found.record_id, payroll_data),
                returned |-> found.record_id] : found \in existing }
        ELSE IF binds(insert_columns(payroll_data))
        THEN { [records |-> records \cup
                               { [record_id |-> lastrowid, period_id |-> period_id,
                                  employee_id |-> employee_id,
                                  cols |-> insert_columns(payroll_data)] },
                returned |-> lastrowid] : lastrowid \in NewRecordIds(records) }
        ELSE { [records |-> records, returned |-> ProgrammingError] }

\* the largest number of create_payroll_record calls under way at a time
MaxCalls == 2

\* the existence SELECT of create_payroll_record (lines 155-159) and its
\* fetchone: the record_id found for the key, None where there is no row
selected(records, period_id, employee_id) ==
    IF existing_records(records, period_id, employee_id) = {} THEN {None}
    ELSE { found.record_id : found \in existing_records(records, period_id, employee_id) }

\* the rest of create_payroll_record (lines 161-242) after the SELECT gave
\* found: the UPDATE of that record, or the INSERT on the table as it is now;
\* the tables it can leave, with the value returned
written(records, found, period_id, employee_id, payroll_data) ==
    IF found # None
    THEN { [records |-> updated_records(records, found, payroll_data),
            returned |-> found] }
    ELSE IF binds(insert_columns(payroll_data))
    THEN { [records |-> records \cup
                           { [record_id |-> lastrowid, period_id |-> period_id,
                              employee_id |-> employee_id,
                              cols |-> insert_columns(payroll_data)] },
            returned |-> lastrowid] : lastrowid \in NewRecordIds(records) }
    ELSE { [records |-> records, returned |-> ProgrammingError] }

PeriodIds == {1, 2}

\* the active employees, and the base salaries the salary scale joins to
\* each (500000 where the scale has no row for the category)
ActiveEmployees == {"E1", "E2"}

ScaleSalaries(employee_id) ==
    IF employee_id = "E1" THEN {15000000} ELSE {50000000}

\* the payroll_data the payroll screen builds from a PayrollResult
\* (payroll_screen.py lines 543-573)
payroll_data_of(result) ==
    [k \in { "base_salary", "days_worked", "days_absent", "transport_allowance",
              "family_allowance", "responsibility_allowance", "risk_allowance",
              "housing_allowance", "overtime_amount", "bonus_amount", "ind_spec_1973",
              "cher_vie_1974", "gross_salary", "inps_employee", "amo_employee",
              "income_tax_net", "loan_deduction", "advance_deduction",
              "other_deductions", "net_salary", "net_to_pay", "inps_employer",
              "amo_employer", "taxe_logement", "taxe_formation", "taxe_emploi",
              "contribution_cfe", "total_employer_cost", "total_cost" } |-> result[k]]

\* the payroll_data passed to the repository: a computed payroll with loan
\* and advance deductions, and a dictionary with a few keys only
PayrollDatas ==
    { payroll_data_of(calculate(DEFAULT_BRACKETS,
          [PayrollInput("E1", 50000000, <<"C", "0">>)
              EXCEPT !.loan_deduction = 1500000, !.advance_deduction = 600000])),
      [base_salary |-> 30000000, gross_salary |-> 33000000],
      [base_salary |-> Unbindable, gross_salary |-> 44000000] }

\* no PayrollScreen was constructed
NoScreen ==
    [current_period |-> None, payroll_records |-> << >>,
     calculate_all_btn |-> FALSE, finalize_btn |-> FALSE]

\* no PayrollScreen handler ran yet
NoReport ==
    [handler |-> "none", listed |-> << >>, attempted |-> << >>, outcomes |-> << >>,
     count |-> 0, errors |-> << >>, edit |-> << >>]

\* no PayrollRepository call was made yet
NoCall == [op |-> "none", period_id |-> None, employee_id |-> "", returned |-> None]

\* the database holds two open periods and no payroll record yet
InitRepository ==
    /\ brackets = DEFAULT_BRACKETS
    /\ tax_in = << >> /\ tax_out = << >>
    /\ mtax_in = << >> /\ mtax_out = << >>
    /\ pay_in = << >> /\ pay_out = << >>
    /\ status_in = << >> /\ allowance_out = << >> /\ reduction_out = << >>
    /\ quick_in = << >> /\ quick_out = << >>
    /\ tax_brackets = << >>
    /\ payroll_records = {}
    /\ payroll_periods = { [period_id |-> p, is_finalized |-> 0] : p \in PeriodIds }
    /\ last_call = NoCall
    /\ employees = << >> /\ screen = NoScreen /\ report = NoReport /\ calls = << >>

(***************************************************************************)
(* The payroll screen (PayrollScreen) and its edit dialog                  *)
(* (PayrollEditDialog). A record is a row of payroll_records as the screen *)
(* holds it: a dict from column names to values.                           *)
(***************************************************************************)

\* the value of a column the INSERT of a row left out: the numeric columns
\* of payroll_records default to 0
column_default == 0

\* the employees in the order of their full names
ByFullName == <<"E1", "E2">>

\* dict(row) of a row of payroll_records
record_of(row) ==
    [k \in DOMAIN row.cols \cup {"record_id", "period_id", "employee_id"} |->
        IF k = "record_id" THEN row.record_id
        ELSE IF k = "period_id" THEN row.period_id
        ELSE IF k = "employee_id" THEN row.employee_id
        ELSE IF row.cols[k] = None THEN column_default
        ELSE row.cols[k]]

RECURSIVE by_record_id(_)
by_record_id(rows) ==
    IF rows = {} THEN << >>
    ELSE LET first == CHOOSE r \in rows : \A other \in rows : r.record_id <= other.record_id
         IN  <<first>> \o by_record_id(rows \ {first})

RECURSIVE rows_in_order(_, _)
rows_in_order(rows, names) ==
    IF names = << >> THEN << >>
    ELSE by_record_id({ r \in rows : r.employee_id = Head(names) })
             \o rows_in_order(rows, Tail(names))

\* PayrollRepository.get_records_by_period (lines 327-349): the period's
\* rows that join an employee, ordered by the employee's full name
get_records_by_period(records, emps, period_id) ==
    LET joined == rows_in_order({ r \in records : /\ r.period_id = period_id
                                                  /\ r.employee_id \in DOMAIN emps },
                                ByFullName)
    IN  [i \in 1..Len(joined) |-> record_of(joined[i])]

\* PayrollRepository.initialize_period_with_employees (lines 410-455) on a
\* table: one row for every active employee the period has none for, in the
\* order the SELECT gives them and so with consecutive ids, with the base
\* salary the scale joins to the employee; returns the number inserted
initialize_period_with_employees(records, period_id) ==
    LET missing == { e \in ActiveEmployees :
                        existing_records(records, period_id, e) = {} }
        free == NewRecordIds(records)
        numbering == { ids \in [missing -> free] :
                         /\ \A e1 \in missing, e2 \in missing :
                                ids[e1] = ids[e2] => e1 = e2
                         /\ \A e \in missing :
                                \/ \A other \in missing : ids[e] <= ids[other]
                                \/ \E other \in missing : ids[other] = ids[e] - 1 }
        salaries == { base_salary \in [missing -> UNION { ScaleSalaries(e) : e \in missing }] :
                        \A e \in missing : base_salary[e] \in ScaleSalaries(e) }
    IN  { [records |-> records \cup
                          { [record_id |-> ids[e], period_id |-> period_id,
                             employee_id |-> e,
                             cols |-> initial_columns(base_salary[e])] : e \in missing },
           returned |-> Cardinality(missing)] : ids \in numbering, base_salary \in salaries }

\* PayrollScreen.load_payroll_records (lines 327-350): the period's records,
\* after initialize_period_with_employees where the period has none
load_payroll_records(records, emps, period_id) ==
    LET listed == get_records_by_period(records, emps, period_id)
    IN  IF listed # << >>
        THEN { [records |-> records, payroll_records |-> listed] }
        ELSE { [records |-> done.records,
                payroll_records |-> get_records_by_period(done.records, emps, period_id)]
               : done \in initialize_period_with_employees(records, period_id) }

\* the PayrollInput calculate_single_record builds from a record and the
\* employee's status code (lines 514-531)
payroll_input_of(record, status_code) ==
    [employee_id |-> record["employee_id"],
     base_salary |-> record["base_salary"],
     status_code |-> status_code,
     days_worked |-> record["days_worked"],
     days_absent |-> record["days_absent"],
     transport_allowance |-> Get(record, "ind_transport", 0),
     family_allowance |-> Get(record, "family_allowance", 0),
     responsibility_allowance |-> Get(record, "responsibility_allowance", 0),
     risk_allowance |-> Get(record, "risk_premium", 0),
     housing_allowance |-> Get(record, "vehicle_allowance", 0),
     overtime_amount |-> Get(record, "overtime_pay", 0),
     bonus_amount |-> 0,
     ind_spec_1973 |-> 0, cher_vie_1974 |-> 0,
     loan_deduction |-> Get(record, "advances_loans_deduction", 0),
     advance_deduction |-> 0, other_deductions |-> 0]

\* lines 533-540 of calculate_single_record: the family allowance looked
\* up where the record has none, then PayrollCalculator.calculate
calculated(input_data) ==
    LET looked_up == IF input_data.family_allowance = 0
                     THEN calculate_family_allowance(input_data.status_code,
                                                     QCents(input_data.base_salary))
                     ELSE input_data.family_allowance
    IN  IF looked_up = IndexError THEN Raised
        ELSE calculate(DEFAULT_BRACKETS,
                       [input_data EXCEPT !.family_allowance = looked_up])

\* PayrollScreen.calculate_single_record (lines 502-589) up to the reload:
\* what the call can leave in the table, and how it ended. Every exception
\* is caught in the method, which returns normally in each case:
\* propagated is whether an exception reaches the caller
calculate_single_record(records, emps, current_period, record) ==
    LET employee_id == record["employee_id"]
    IN  IF employee_id \notin DOMAIN emps
        THEN { [records |-> records, outcome |-> "not found", propagated |-> FALSE] }
        ELSE UNION {
               IF result.raised
               THEN { [records |-> records, outcome |-> "error", propagated |-> FALSE] }
               ELSE UNION {
                      { [records |-> done.records,
                         outcome |-> IF done.returned = ProgrammingError
                                     THEN "error" ELSE "stored",
                         propagated |-> FALSE]
                        : done \in create_payroll_record(records, current_period.period_id,
                                                         employee_id, payroll_data) }
                      : payroll_data \in { payroll_data_of(result) } }
               : result \in { calculated(payroll_input_of(record, emps[employee_id])) } }

\* the loop of calculate_all left at the first record that was not stored
RECURSIVE calculate_all_loop_stopping(_, _, _, _, _)
calculate_all_loop_stopping(records, emps, current_period, listed, i) ==
    IF i > Len(listed)
    THEN { [records |-> records, attempted |-> << >>, outcomes |-> << >>,
            count |-> 0, errors |-> << >>] }
    ELSE UNION {
           IF one.outcome # "stored"
           THEN { [records |-> one.records,
                   attempted |-> <<listed[i]["employee_id"]>>,
                   outcomes |-> <<one.outcome>>, count |-> 0,
                   errors |-> <<listed[i]["employee_id"]>>] }
           ELSE { [records |-> rest.records,
                   attempted |-> <<listed[i]["employee_id"]>> \o rest.attempted,
                   outcomes |-> <<one.outcome>> \o rest.outcomes,
                   count |-> 1 + rest.count, errors |-> rest.errors]
                  : rest \in calculate_all_loop_stopping(one.records, emps,
                                                         current_period, listed, i + 1) }
           : one \in calculate_single_record(records, emps, current_period, listed[i]) }

\* the loop of PayrollScreen.calculate_all (lines 603-608) from record i of
\* the list on: calculate_single_record on each record in turn, count
\* raised after a call that returned, the employee put in errors after a
\* call that raised
RECURSIVE calculate_all_loop(_, _, _, _, _)
calculate_all_loop(records, emps, current_period, listed, i) ==
    IF i > Len(listed)
    THEN { [records |-> records, attempted |-> << >>, outcomes |-> << >>,
            count |-> 0, errors |-> << >>] }
    ELSE UNION {
           { [records |-> rest.records,
              attempted |-> <<listed[i]["employee_id"]>> \o rest.attempted,
              outcomes |-> <<one.outcome>> \o rest.outcomes,
              count |-> (IF one.propagated THEN 0 ELSE 1) + rest.count,
              errors |-> (IF one.propagated THEN <<listed[i]["employee_id"]>>
                          ELSE << >>) \o rest.errors]
             : rest \in calculate_all_loop(one.records, emps, current_period,
                                           listed, i + 1) }
           : one \in calculate_single_record(records, emps, current_period, listed[i]) }

\* QSpinBox / QDoubleSpinBox.setValue: the value brought into the range
spin(minimum, maximum, value) ==
    IF value < minimum THEN minimum ELSE IF value > maximum THEN maximum ELSE value

\* an amount in cents shown with no decimals (setDecimals(0)): whole units
whole_units(value) == ((value + 50) \div 100) * 100

\* PayrollEditDialog.init_ui and load_data (lines 74-192, 252-267): the
\* inputs of the form, filled from the record
load_data(record) ==
    [base_salary_input |->
         spin(0, 1000000000, whole_units(Get(record, "base_salary", 0))),
     days_worked_input |-> spin(0, 31, Get(record, "days_worked", 26)),
     days_absent_input |-> spin(0, 31, Get(record, "days_absent", 0)),
     transport_input |-> spin(0, 100000000, whole_units(Get(record, "ind_transport", 0))),
     family_input |-> spin(0, 10000000, whole_units(Get(record, "family_allowance", 0))),
     responsibility_input |->
         spin(0, 50000000, whole_units(Get(record, "responsibility_allowance", 0))),
     risk_input |-> spin(0, 50000000, whole_units(Get(record, "risk_premium", 0))),
     vehicle_input |-> spin(0, 50000000, whole_units(Get(record, "vehicle_allowance", 0))),
     overtime_input |-> spin(0, 100000000, whole_units(Get(record, "overtime_pay", 0))),
     loan_input |->
         spin(0, 100000000, whole_units(Get(record, "advances_loans_deduction", 0)))]

\* the form after the user typed the values of edit into its inputs
typed(form, edit) ==
    [k \in DOMAIN form |-> IF k \in DOMAIN edit THEN edit[k] ELSE form[k]]

\* PayrollEditDialog.get_data (lines 269-280)
get_data(form) ==
    [base_salary |-> form.base_salary_input,
     days_worked |-> form.days_worked_input,
     days_absent |-> form.days_absent_input,
     responsibility_allowance |-> form.responsibility_input,
     risk_allowance |-> form.risk_input,
     housing_allowance |-> form.vehicle_input,
     overtime_amount |-> form.overtime_input,
     loan_deduction |-> form.loan_input]

\* record_copy of edit_payroll_record (lines 645-648): dict(record) updated
\* with the dialog's data
record_copy(record, modified_data) ==
    [k \in DOMAIN record \cup DOMAIN modified_data |->
        IF k \in DOMAIN modified_data THEN modified_data[k] ELSE record[k]]

\* what the user types into the dialog before Recalculer: days absent, or
\* risk premium, vehicle allowance, overtime and loan
Edits ==
    { [days_absent_input |-> 4],
      [risk_input |-> 2000000, vehicle_input |-> 3000000,
       overtime_input |-> 1000000, loan_input |-> 1500000] }

\* the employees table: E1 single with no child or with a blank status code,
\* E2 married with two children
EmployeeTables ==
    { [e \in ActiveEmployees |-> IF e = "E1" THEN s ELSE <<"M", "0", "2">>]
      : s \in { <<"C", "0">>, <<" ">> } }

\* the period load_periods selects: the first of get_all_periods, ordered by
\* start date, latest first; periods are created in calendar order
first_period(periods) ==
    CHOOSE p \in periods : \A other \in periods : other.period_id <= p.period_id

\* PayrollRepository.get_period_by_id
get_period_by_id(periods, period_id) ==
    CHOOSE p \in periods : p.period_id = period_id

\* PayrollScreen.on_period_changed (lines 304-325) for a period of the
\* combo: the screens it can lead to, with the table
on_period_changed(records, periods, emps, period_id) ==
    LET current_period == get_period_by_id(periods, period_id)
    IN  { [records |-> loaded.records,
           screen |-> [current_period |-> current_period,
                       payroll_records |-> loaded.payroll_records,
                       calculate_all_btn |-> current_period.is_finalized = 0,
                       finalize_btn |-> current_period.is_finalized = 0]]
          : loaded \in load_payroll_records(records, emps, period_id) }

\* PayrollRepository.finalize_period (lines 83-104)
finalize_period(periods, period_id) ==
    { IF p.period_id = period_id THEN [p EXCEPT !.is_finalized = 1] ELSE p
      : p \in periods }

\* PayrollScreen() constructed on a database with two open periods, the
\* employees and no payroll record: load_periods selects the first period
\* and load_payroll_records initializes it
InitScreen ==
    /\ brackets = DEFAULT_BRACKETS
    /\ tax_in = << >> /\ tax_out = << >>
    /\ mtax_in = << >> /\ mtax_out = << >>
    /\ pay_in = << >> /\ pay_out = << >>
    /\ status_in = << >> /\ allowance_out = << >> /\ reduction_out = << >>
    /\ quick_in = << >> /\ quick_out = << >>
    /\ tax_brackets = << >>
    /\ payroll_periods = { [period_id |-> p, is_finalized |-> 0] : p \in PeriodIds }
    /\ last_call = NoCall
    /\ employees \in EmployeeTables
    /\ \E next \in on_period_changed({}, payroll_periods, employees,
                                      first_period(payroll_periods).period_id) :
           /\ payroll_records = next.records
           /\ screen = next.screen
    /\ report = NoReport
    /\ calls = << >>

\* the largest dependents count of a sampled status code
MaxDependents == 25

\* str(n) for 0 <= n <= 99
Str(n) == IF n < 10 THEN <<Digits[n + 1]>>
          ELSE <<Digits[(n \div 10) + 1], Digits[(n % 10) + 1]>>

\* the status code <letter><n>
Code(letter, n) == <<letter>> \o Str(n)

\* the spellings of <letter><n> the lookups normalise: as is, lower case,
\* zero-padded ("C05"), and with blanks around
Spellings(letter, n) ==
    { Code(letter, n),
      Code(IF letter = "C" THEN "c" ELSE "m", n),
      <<letter, "0">> \o Str(n),
      <<" ">> \o Code(letter, n) \o <<" ">> }

WellFormedCodes == UNION { Spellings(l, n) : l \in {"C", "M"}, n \in 0..MaxDependents }

\* status codes that are no C or M followed by a count: empty, blank,
\* unknown letter, no suffix, non-numeric suffix, digits only, digits
\* first, a negative count
MalformedCodes ==
    { << >>, <<" ">>, <<" ", " ">>, <<"X", "3">>, <<"x", "0">>, <<"C">>, <<"M">>,
      <<"C", "x">>, <<"C", "1", "x">>, <<"M", "C">>, <<"5">>, <<"5", "C">>,
      <<"C", "-", "1">>, <<"M", "-", "1">>, <<"C", ".", "5">>, <<"-">> }

StatusCodes == WellFormedCodes \cup MalformedCodes

\* a caller is about to look up one status code
InitLookup ==
    /\ brackets = DEFAULT_BRACKETS
    /\ tax_in = << >> /\ tax_out = << >>
    /\ mtax_in = << >> /\ mtax_out = << >>
    /\ pay_in = << >> /\ pay_out = << >>
    /\ status_in \in { <<[status_code |-> c, base_salary |-> b]>> :
                         c \in StatusCodes, b \in {0, 50000000} }
    /\ allowance_out = << >> /\ reduction_out = << >>
    /\ quick_in = << >> /\ quick_out = << >>
    /\ tax_brackets = << >>
    /\ payroll_records = {} /\ payroll_periods = {} /\ last_call = NoCall
    /\ employees = << >> /\ screen = NoScreen /\ report = NoReport /\ calls = << >>

\* keyword arguments of calculate_payroll: none, the defaults spelled out, an
\* absence, an allowance outside the contribution base, a family allowance
\* (a zero one too)
QuickKwargs ==
    { << >>,
      [days_worked |-> 26, days_absent |-> 0],
      [days_absent |-> 13],
      [risk_allowance |-> 1000000],
      [family_allowance |-> 2000000],
      [family_allowance |-> 0] }

QuickArgs ==
    { [employee_id |-> "E1", base_salary |-> b, status_code |-> c, kwargs |-> k] :
        b \in BaseSalaries,
        c \in { <<"C", "0">>, <<"C", "2">>, <<"M", "0", "8">>, <<"X", "3">>, << >>, <<" ">> },
        k \in QuickKwargs }

\* a caller is about to make one calculate_payroll call
InitQuick ==
    /\ brackets = DEFAULT_BRACKETS
    /\ tax_in = << >> /\ tax_out = << >>
    /\ mtax_in = << >> /\ mtax_out = << >>
    /\ pay_in = << >> /\ pay_out = << >>
    /\ status_in = << >> /\ allowance_out = << >> /\ reduction_out = << >>
    /\ quick_in \in { <<a>> : a \in QuickArgs } /\ quick_out = << >>
    /\ tax_brackets = << >>
    /\ payroll_records = {} /\ payroll_periods = {} /\ last_call = NoCall
    /\ employees = << >> /\ screen = NoScreen /\ report = NoReport /\ calls = << >>

\* a caller is about to make three calculate calls on one PayrollCalculator,
\* the third with the input of the first
InitRepeat ==
    /\ brackets = DEFAULT_BRACKETS
    /\ tax_in = << >> /\ tax_out = << >>
    /\ mtax_in = << >> /\ mtax_out = << >>
    /\ pay_in \in { <<a, b, a>> : a \in PayrollInputs, b \in PayrollInputs }
    /\ pay_out = << >>
    /\ status_in = << >> /\ allowance_out = << >> /\ reduction_out = << >>
    /\ quick_in = << >> /\ quick_out = << >>
    /\ tax_brackets = << >>
    /\ payroll_records = {} /\ payroll_periods = {} /\ last_call = NoCall
    /\ employees = << >> /\ screen = NoScreen /\ report = NoReport /\ calls = << >>

(***************************************************************************)
(* The tax bracket dialog (ui/dialogs/tax_bracket_dialog.py) and the        *)
(* tax_brackets table it edits. A row's tax_rate is in thousandths, its     *)
(* cumulative_tax an exact rational.                                        *)
(***************************************************************************)

\* the table as imported: the schedule of Mali's brackets, one row each
SeedBrackets ==
    [i \in 1..Len(DEFAULT_BRACKETS) |->
        [bracket_id |-> i,
         min_income |-> DEFAULT_BRACKETS[i].min_income,
         max_income |-> DEFAULT_BRACKETS[i].max_income,
         tax_rate |-> DEFAULT_BRACKETS[i].tax_rate,
         cumulative_tax |-> QCents(DEFAULT_BRACKETS[i].cumulative_tax)]]

\* save_brackets (lines 231-296), the UPDATEs: row idx gets its new rate and
\* a cumulative_tax recomputed from the rows the dialog loaded (loaded)
saved_rows(loaded, new_rates) ==
    [idx \in 1..Len(loaded) |->
        [loaded[idx] EXCEPT
            !.tax_rate = new_rates[idx],
            !.cumulative_tax =
                IF idx = 1 THEN QInt(0)
                ELSE LET prev_bracket == loaded[idx - 1]
                         bracket_width == prev_bracket.max_income - prev_bracket.min_income
                     IN  QAdd(prev_bracket.cumulative_tax,
                              QScale(QInt(bracket_width), prev_bracket.tax_rate, 1000))]]

\* the rate columns an administrator may type, in thousandths ("37.5" is
\* 375): the schedule with the top rate raised, a lower schedule with a
\* half percent, and one with a rate above 100
RateEdits ==
    { <<0, 50, 120, 180, 260, 310, 400>>,
      <<0, 35, 100, 150, 200, 250, 300>>,
      <<0, 50, 120, 180, 260, 310, 1200>> }

\* what the payroll screen computes for the bracket scenario
BracketScenarioInputs ==
    { PayrollInput("E1", b, <<"C", "0">>) : b \in {10001200, 50000000} }
    \cup { [PayrollInput("E1", 50000000, <<"M", "5">>) EXCEPT !.bonus_amount = 700000] }

\* the application is started on an imported database, with two payroll
\* calculations ahead
InitBrackets ==
    /\ brackets = DEFAULT_BRACKETS
    /\ tax_in = << >> /\ tax_out = << >>
    /\ mtax_in = << >> /\ mtax_out = << >>
    /\ pay_in \in BracketScenarioInputs \X BracketScenarioInputs /\ pay_out = << >>
    /\ status_in = << >> /\ allowance_out = << >> /\ reduction_out = << >>
    /\ quick_in = << >> /\ quick_out = << >>
    /\ tax_brackets = SeedBrackets
    /\ payroll_records = {} /\ payroll_periods = {} /\ last_call = NoCall
    /\ employees = << >> /\ screen = NoScreen /\ report = NoReport /\ calls = << >>

\* a caller is about to make two calculate_annual_tax calls
InitAnnualTax ==
    /\ brackets = DEFAULT_BRACKETS
    /\ tax_in \in AnnualIncomes \X AnnualIncomes /\ tax_out = << >>
    /\ mtax_in = << >> /\ mtax_out = << >>
    /\ pay_in = << >> /\ pay_out = << >>
    /\ status_in = << >> /\ allowance_out = << >> /\ reduction_out = << >>
    /\ quick_in = << >> /\ quick_out = << >>
    /\ tax_brackets = << >>
    /\ payroll_records = {} /\ payroll_periods = {} /\ last_call = NoCall
    /\ employees = << >> /\ screen = NoScreen /\ report = NoReport /\ calls = << >>

\* a caller is about to make two calculate_monthly_tax calls
InitMonthlyTax ==
    /\ brackets = DEFAULT_BRACKETS
    /\ tax_in = << >> /\ tax_out = << >>
    /\ mtax_in \in MonthlyArgs \X MonthlyArgs /\ mtax_out = << >>
    /\ pay_in = << >> /\ pay_out = << >>
    /\ status_in = << >> /\ allowance_out = << >> /\ reduction_out = << >>
    /\ quick_in = << >> /\ quick_out = << >>
    /\ tax_brackets = << >>
    /\ payroll_records = {} /\ payroll_periods = {} /\ last_call = NoCall
    /\ employees = << >> /\ screen = NoScreen /\ report = NoReport /\ calls = << >>

\* a caller is about to make two PayrollCalculator.calculate calls
InitPayroll ==
    /\ brackets = DEFAULT_BRACKETS
    /\ tax_in = << >> /\ tax_out = << >>
    /\ mtax_in = << >> /\ mtax_out = << >>
    /\ pay_in \in PayrollInputs \X PayrollInputs /\ pay_out = << >>
    /\ status_in = << >> /\ allowance_out = << >> /\ reduction_out = << >>
    /\ quick_in = << >> /\ quick_out = << >>
    /\ tax_brackets = << >>
    /\ payroll_records = {} /\ payroll_periods = {} /\ last_call = NoCall
    /\ employees = << >> /\ screen = NoScreen /\ report = NoReport /\ calls = << >>

\* the database holds two open periods and no payroll record; no call is
\* under way
InitConcurrent ==
    /\ brackets = DEFAULT_BRACKETS
    /\ tax_in = << >> /\ tax_out = << >>
    /\ mtax_in = << >> /\ mtax_out = << >>
    /\ pay_in = << >> /\ pay_out = << >>
    /\ status_in = << >> /\ allowance_out = << >> /\ reduction_out = << >>
    /\ quick_in = << >> /\ quick_out = << >>
    /\ tax_brackets = << >>
    /\ payroll_records = {}
    /\ payroll_periods = { [period_id |-> p, is_finalized |-> 0] : p \in PeriodIds }
    /\ last_call = NoCall
    /\ employees = << >> /\ screen = NoScreen /\ report = NoReport
    /\ calls = << >>

Init ==
    \/ InitAnnualTax \/ InitMonthlyTax \/ InitPayroll \/ InitLookup \/ InitQuick
    \/ InitRepeat \/ InitBrackets \/ InitRepository \/ InitScreen
    \/ InitConcurrent

\* the next pending call TaxCalculator.calculate_annual_tax(income)
CalculateAnnualTax ==
    /\ Len(tax_out) < Len(tax_in)
    /\ LET income == tax_in[Len(tax_out) + 1]
       IN  tax_out' = Append(tax_out, calculate_annual_tax(brackets, QCents(income)))
    /\ UNCHANGED <<brackets, tax_in, mtax_in, mtax_out, pay_in, pay_out,
                   status_in, allowance_out, reduction_out, quick_in, quick_out,
                   tax_brackets, payroll_records, payroll_periods, last_call,
                   employees, screen, report, calls>>

\* the next pending call TaxCalculator.calculate_monthly_tax(gross, reduction)
CalculateMonthlyTax ==
    /\ Len(mtax_out) < Len(mtax_in)
    /\ LET arg == mtax_in[Len(mtax_out) + 1]
       IN  mtax_out' = Append(mtax_out,
               calculate_monthly_tax(brackets, QCents(arg.gross), arg.reduction))
    /\ UNCHANGED <<brackets, tax_in, tax_out, mtax_in, pay_in, pay_out,
                   status_in, allowance_out, reduction_out, quick_in, quick_out,
                   tax_brackets, payroll_records, payroll_periods, last_call,
                   employees, screen, report, calls>>

\* a calculate that takes the first bracket off the calculator's table as it
\* goes
CalculateConsumingTable ==
    /\ Len(pay_out) < Len(pay_in)
    /\ pay_out' = Append(pay_out, calculate(brackets, pay_in[Len(pay_out) + 1]))
    /\ brackets' = IF Len(brackets) > 1 THEN Tail(brackets) ELSE brackets
    /\ UNCHANGED <<tax_in, tax_out, mtax_in, mtax_out, pay_in,
                   status_in, allowance_out, reduction_out, quick_in, quick_out,
                   tax_brackets, payroll_records, payroll_periods, last_call,
                   employees, screen, report, calls>>

\* the next pending call PayrollCalculator.calculate(input_data)
Calculate ==
    /\ Len(pay_out) < Len(pay_in)
    /\ pay_out' = Append(pay_out, calculate(brackets, pay_in[Len(pay_out) + 1]))
    /\ UNCHANGED <<brackets, tax_in, tax_out, mtax_in, mtax_out, pay_in,
                   status_in, allowance_out, reduction_out, quick_in, quick_out,
                   tax_brackets, payroll_records, payroll_periods, last_call,
                   employees, screen, report, calls>>

\* the next pending call calculate_family_allowance(status_code, base_salary)
CalculateFamilyAllowance ==
    /\ Len(allowance_out) < Len(status_in)
    /\ LET arg == status_in[Len(allowance_out) + 1]
       IN  allowance_out' = Append(allowance_out,
               calculate_family_allowance(arg.status_code, QCents(arg.base_salary)))
    /\ UNCHANGED <<brackets, tax_in, tax_out, mtax_in, mtax_out, pay_in, pay_out,
                   status_in, reduction_out, quick_in, quick_out,
                   tax_brackets, payroll_records, payroll_periods, last_call,
                   employees, screen, report, calls>>

\* the next pending call get_family_charge_reduction(status_code)
GetFamilyChargeReduction ==
    /\ Len(reduction_out) < Len(status_in)
    /\ LET arg == status_in[Len(reduction_out) + 1]
       IN  reduction_out' = Append(reduction_out,
               get_family_charge_reduction(arg.status_code))
    /\ UNCHANGED <<brackets, tax_in, tax_out, mtax_in, mtax_out, pay_in, pay_out,
                   status_in, allowance_out, quick_in, quick_out,
                   tax_brackets, payroll_records, payroll_periods, last_call,
                   employees, screen, report, calls>>

\* the next pending call calculate_payroll(employee_id, base_salary,
\* status_code, **kwargs), on a PayrollCalculator of its own
CalculatePayroll ==
    /\ Len(quick_out) < Len(quick_in)
    /\ LET arg == quick_in[Len(quick_out) + 1]
       IN  quick_out' = Append(quick_out,
               calculate_payroll(DEFAULT_BRACKETS, arg.employee_id, arg.base_salary,
                                 arg.status_code, arg.kwargs))
    /\ UNCHANGED <<brackets, tax_in, tax_out, mtax_in, mtax_out, pay_in, pay_out,
                   status_in, allowance_out, reduction_out, quick_in, tax_brackets,
                   payroll_records, payroll_periods, last_call,
                   employees, screen, report, calls>>

SpecAnnualTax == InitAnnualTax /\ [][CalculateAnnualTax]_vars

SpecMonthlyTax == InitMonthlyTax /\ [][CalculateMonthlyTax]_vars

SpecPayroll == InitPayroll /\ [][Calculate]_vars

SpecLookup == InitLookup /\ [][CalculateFamilyAllowance \/ GetFamilyChargeReduction]_vars

\* TaxBracketDialog opened from ParameterScreen.manage_tax_brackets: the
\* rows are loaded, the administrator types the rates and confirms, and
\* save_brackets validates them (0..100) and writes every row
SaveBrackets(new_rates) ==
    /\ tax_brackets # << >>
    /\ Len(new_rates) = Len(tax_brackets)
    /\ \A idx \in 1..Len(new_rates) : 0 <= new_rates[idx] /\ new_rates[idx] <= 1000
    /\ tax_brackets' = saved_rows(tax_brackets, new_rates)
    /\ UNCHANGED <<brackets, tax_in, tax_out, mtax_in, mtax_out, pay_in, pay_out,
                   status_in, allowance_out, reduction_out, quick_in, quick_out,
                   payroll_records, payroll_periods, last_call,
                   employees, screen, report, calls>>

\* PayrollRepository.create_payroll_record called by a client
CreatePayrollRecord(period_id, employee_id, payroll_data) ==
    /\ \E done \in create_payroll_record(payroll_records, period_id, employee_id,
                                          payroll_data) :
           /\ payroll_records' = done.records
           /\ last_call' = [op |-> "create_payroll_record",
                            period_id |-> period_id, employee_id |-> employee_id,
                            returned |-> done.returned]
    /\ UNCHANGED <<brackets, tax_in, tax_out, mtax_in, mtax_out, pay_in, pay_out,
                   status_in, allowance_out, reduction_out, quick_in, quick_out,
                   tax_brackets, payroll_periods,
                   employees, screen, report, calls>>

\* PayrollRepository.update_payroll_record (lines 244-325); True is 1 and
\* False, returned when the statement raised, is 0
UpdatePayrollRecord(record_id, payroll_data) ==
    /\ payroll_records' = updated_records(payroll_records, record_id, payroll_data)
    /\ last_call' = [op |-> "update_payroll_record", period_id |-> None,
                     employee_id |-> "",
                     returned |-> IF binds(update_columns(payroll_data)) THEN 1 ELSE 0]
    /\ UNCHANGED <<brackets, tax_in, tax_out, mtax_in, mtax_out, pay_in, pay_out,
                   status_in, allowance_out, reduction_out, quick_in, quick_out,
                   tax_brackets, payroll_periods,
                   employees, screen, report, calls>>

\* PayrollRepository.delete_record (lines 364-376)
DeleteRecord(record_id) ==
    /\ payroll_records' = { r \in payroll_records : r.record_id # record_id }
    /\ last_call' = [op |-> "delete_record", period_id |-> None,
                     employee_id |-> "", returned |-> 1]
    /\ UNCHANGED <<brackets, tax_in, tax_out, mtax_in, mtax_out, pay_in, pay_out,
                   status_in, allowance_out, reduction_out, quick_in, quick_out,
                   tax_brackets, payroll_periods,
                   employees, screen, report, calls>>

\* PayrollRepository.delete_period (lines 106-136): the period's records,
\* then the period
DeletePeriod(period_id) ==
    /\ payroll_records' = { r \in payroll_records : r.period_id # period_id }
    /\ payroll_periods' = { p \in payroll_periods : p.period_id # period_id }
    /\ last_call' = [op |-> "delete_period", period_id |-> period_id,
                     employee_id |-> "", returned |-> 1]
    /\ UNCHANGED <<brackets, tax_in, tax_out, mtax_in, mtax_out, pay_in, pay_out,
                   status_in, allowance_out, reduction_out, quick_in, quick_out,
                   tax_brackets,
                   employees, screen, report, calls>>

\* PayrollRepository.initialize_period_with_employees called by a client
InitializePeriodWithEmployees(period_id) ==
    /\ \E done \in initialize_period_with_employees(payroll_records, period_id) :
           /\ payroll_records' = done.records
           /\ last_call' = [op |-> "initialize_period_with_employees",
                            period_id |-> period_id, employee_id |-> "",
                            returned |-> done.returned]
    /\ UNCHANGED <<brackets, tax_in, tax_out, mtax_in, mtax_out, pay_in, pay_out,
                   status_in, allowance_out, reduction_out, quick_in, quick_out,
                   tax_brackets, payroll_periods,
                   employees, screen, report, calls>>

\* the calls made on the repository; the record ids passed are ids read
\* from the table
Repository ==
    \/ \E p \in PeriodIds, e \in ActiveEmployees, d \in PayrollDatas :
           CreatePayrollRecord(p, e, d)
    \/ \E r \in payroll_records, d \in PayrollDatas :
           UpdatePayrollRecord(r.record_id, d)
    \/ \E r \in payroll_records : DeleteRecord(r.record_id)
    \/ \E p \in PeriodIds : DeletePeriod(p)
    \/ \E p \in PeriodIds : InitializePeriodWithEmployees(p)

\* ---------------------------------------------------------------------
\* The handlers of the payroll screen
\* ---------------------------------------------------------------------

\* the employee ids of a list of records
employee_ids(listed) == [i \in 1..Len(listed) |-> listed[i]["employee_id"]]

\* the user picks a period in the combo: PayrollScreen.on_period_changed
OnPeriodChanged(period_id) ==
    /\ screen # NoScreen
    /\ period_id \in { p.period_id : p \in payroll_periods }
    /\ \E next \in on_period_changed(payroll_records, payroll_periods, employees,
                                      period_id) :
           /\ payroll_records' = next.records
           /\ screen' = next.screen
    /\ report' = [NoReport EXCEPT !.handler = "on_period_changed"]
    /\ UNCHANGED <<brackets, tax_in, tax_out, mtax_in, mtax_out, pay_in, pay_out,
                   status_in, allowance_out, reduction_out, quick_in, quick_out,
                   tax_brackets, payroll_periods, last_call, employees, calls>>

\* calculate_single_record called by a button of the screen on a record,
\* with the reload that follows a stored calculation (line 582)
SingleRecord(handler, record, edit) ==
    /\ \E one \in calculate_single_record(payroll_records, employees,
                                           screen.current_period, record) :
           \E loaded \in
               (IF one.outcome = "stored"
                THEN load_payroll_records(one.records, employees,
                                          screen.current_period.period_id)
                ELSE { [records |-> one.records,
                        payroll_records |-> screen.payroll_records] }) :
               /\ payroll_records' = loaded.records
               /\ screen' = [screen EXCEPT !.payroll_records = loaded.payroll_records]
               /\ report' = [handler |-> handler,
                             listed |-> <<record["employee_id"]>>,
                             attempted |-> <<record["employee_id"]>>,
                             outcomes |-> <<one.outcome>>,
                             count |-> IF one.outcome = "stored" THEN 1 ELSE 0,
                             errors |-> << >>,
                             edit |-> edit]
    /\ UNCHANGED <<brackets, tax_in, tax_out, mtax_in, mtax_out, pay_in, pay_out,
                   status_in, allowance_out, reduction_out, quick_in, quick_out,
                   tax_brackets, payroll_periods, last_call, employees, calls>>

\* the Calc button of row i: PayrollScreen.calculate_single_record
CalculateSingleRecord(i) ==
    /\ i \in 1..Len(screen.payroll_records)
    /\ SingleRecord("calculate_single_record", screen.payroll_records[i], << >>)

\* the Edit button of row i, the user types edit into the dialog and
\* accepts: PayrollScreen.edit_payroll_record (lines 629-651)
EditPayrollRecord(i, edit) ==
    /\ i \in 1..Len(screen.payroll_records)
    /\ \E modified_data \in { get_data(typed(load_data(screen.payroll_records[i]), edit)) } :
           \E copy \in { record_copy(screen.payroll_records[i], modified_data) } :
               SingleRecord("edit_payroll_record", copy, edit)

\* the Calculate All button, which on_period_changed disables on a
\* finalized period: PayrollScreen.calculate_all (lines 591-627)
CalculateAll ==
    /\ screen.calculate_all_btn
    /\ \E done \in calculate_all_loop(payroll_records, employees, screen.current_period,
                                       screen.payroll_records, 1) :
           \E loaded \in load_payroll_records(done.records, employees,
                                              screen.current_period.period_id) :
               /\ payroll_records' = loaded.records
               /\ screen' = [screen EXCEPT !.payroll_records = loaded.payroll_records]
               /\ report' = [handler |-> "calculate_all",
                             listed |-> employee_ids(screen.payroll_records),
                             attempted |-> done.attempted,
                             outcomes |-> done.outcomes,
                             count |-> done.count,
                             errors |-> done.errors,
                             edit |-> << >>]
    /\ UNCHANGED <<brackets, tax_in, tax_out, mtax_in, mtax_out, pay_in, pay_out,
                   status_in, allowance_out, reduction_out, quick_in, quick_out,
                   tax_brackets, payroll_periods, last_call, employees, calls>>

\* the Finalize button, confirmed: PayrollScreen.finalize_period (lines
\* 653-675), then load_periods, which selects the first period again
FinalizePeriod ==
    /\ screen.finalize_btn
    /\ LET finalized == finalize_period(payroll_periods,
                                        screen.current_period.period_id)
       IN  /\ payroll_periods' = finalized
           /\ \E next \in on_period_changed(payroll_records, finalized, employees,
                                             first_period(finalized).period_id) :
                  /\ payroll_records' = next.records
                  /\ screen' = next.screen
    /\ report' = [NoReport EXCEPT !.handler = "finalize_period"]
    /\ UNCHANGED <<brackets, tax_in, tax_out, mtax_in, mtax_out, pay_in, pay_out,
                   status_in, allowance_out, reduction_out, quick_in, quick_out,
                   tax_brackets, last_call, employees, calls>>

\* what the user can do on the payroll screen
Screen ==
    \/ \E p \in PeriodIds : OnPeriodChanged(p)
    \/ \E i \in 1..MaxRecordId : CalculateSingleRecord(i)
    \/ \E i \in 1..MaxRecordId, edit \in Edits : EditPayrollRecord(i, edit)
    \/ CalculateAll
    \/ FinalizePeriod

\* ---------------------------------------------------------------------
\* create_payroll_record calls made from several threads on the shared
\* connection (check_same_thread=False): the statements of the calls
\* interleave
\* ---------------------------------------------------------------------

\* a thread calls create_payroll_record(period_id, employee_id, payroll_data)
CallCreate(period_id, employee_id, payroll_data) ==
    /\ Len(calls) < MaxCalls
    /\ calls' = Append(calls, [period_id |-> period_id, employee_id |-> employee_id,
                               payroll_data |-> payroll_data, pc |-> "select",
                               found |-> None, returned |-> None])
    /\ UNCHANGED <<brackets, tax_in, tax_out, mtax_in, mtax_out, pay_in, pay_out,
                   status_in, allowance_out, reduction_out, quick_in, quick_out,
                   tax_brackets, payroll_records, payroll_periods, last_call,
                   employees, screen, report>>

\* call c runs its existence SELECT
SelectExisting(c) ==
    /\ c \in 1..Len(calls)
    /\ calls[c].pc = "select"
    /\ \E found \in selected(payroll_records, calls[c].period_id, calls[c].employee_id) :
           calls' = [calls EXCEPT ![c].pc = "write", ![c].found = found]
    /\ UNCHANGED <<brackets, tax_in, tax_out, mtax_in, mtax_out, pay_in, pay_out,
                   status_in, allowance_out, reduction_out, quick_in, quick_out,
                   tax_brackets, payroll_records, payroll_periods, last_call,
                   employees, screen, report>>

\* call c runs its UPDATE or its INSERT, commits and returns
WriteRecord(c) ==
    /\ c \in 1..Len(calls)
    /\ calls[c].pc = "write"
    /\ \E done \in written(payroll_records, calls[c].found, calls[c].period_id,
                            calls[c].employee_id, calls[c].payroll_data) :
           /\ payroll_records' = done.records
           /\ calls' = [calls EXCEPT ![c].pc = "returned",
                                     ![c].returned = done.returned]
           /\ last_call' = [op |-> "create_payroll_record",
                            period_id |-> calls[c].period_id,
                            employee_id |-> calls[c].employee_id,
                            returned |-> done.returned]
    /\ UNCHANGED <<brackets, tax_in, tax_out, mtax_in, mtax_out, pay_in, pay_out,
                   status_in, allowance_out, reduction_out, quick_in, quick_out,
                   tax_brackets, payroll_periods, employees, screen, report>>

\* the threads' steps, in any order
Concurrent ==
    \/ \E p \in PeriodIds, e \in ActiveEmployees, d \in PayrollDatas : CallCreate(p, e, d)
    \/ \E c \in 1..MaxCalls : SelectExisting(c)
    \/ \E c \in 1..MaxCalls : WriteRecord(c)

SpecConcurrent == InitConcurrent /\ [][Concurrent]_vars

SpecScreen == InitScreen /\ [][Screen]_vars

SpecRepository == InitRepository /\ [][Repository]_vars

SpecRepeat == InitRepeat /\ [][Calculate]_vars

SpecBrackets ==
    InitBrackets /\ [][Calculate \/ \E r \in RateEdits : SaveBrackets(r)]_vars

SpecQuick == InitQuick /\ [][CalculatePayroll]_vars

Next ==
    \/ CalculateAnnualTax \/ CalculateMonthlyTax \/ Calculate
    \/ CalculateFamilyAllowance \/ GetFamilyChargeReduction
    \/ CalculatePayroll
    \/ \E r \in RateEdits : SaveBrackets(r)
    \/ Repository
    \/ Screen
    \/ Concurrent

Spec == Init /\ [][Next]_vars

(***************************************************************************)
(* Claims about the tax engine                                             *)
(***************************************************************************)
\* the tax rate of a bracket on one currency unit, in cents
RateCentsPerUnit(bracket) == bracket.tax_rate \div 10

\* C1: for every income inside a bracket of the table, the tax the loop of
\* calculate_annual_tax returns equals that bracket's cumulative_tax +
\* (income - min_income + 1) * rate, to the cent.
C1_LoopEqualsShortcut ==
    \A k \in 1..Len(tax_out) :
        \A i \in containing(brackets, QCents(tax_in[k])) :
            tax_out[k] = shortcut_tax(brackets[i], QCents(tax_in[k]))

\* C2: the bracket table is contiguous and ascending, exactly its last
\* bracket is unbounded, and cumulative_tax[i] = cumulative_tax[i-1] +
\* (max_income[i-1] - min_income[i-1] + 1) * rate[i-1] for every i >= 1.
C2_BracketTableInvariant ==
    /\ \A i \in 1..Len(brackets) :
          (brackets[i].max_income = None) <=> (i = Len(brackets))
    /\ \A i \in 1..(Len(brackets) - 1) :
          /\ brackets[i].min_income <= brackets[i].max_income
          /\ brackets[i + 1].min_income = brackets[i].max_income + 1
          /\ QCents(brackets[i + 1].cumulative_tax) =
                QAdd(QCents(brackets[i].cumulative_tax),
                     QScale(QInt(brackets[i].max_income - brackets[i].min_income + 1),
                            brackets[i].tax_rate, 1000))

\* C3: bracket boundaries are inclusive on both ends: the tax on 330000 is 0
\* and on 330001 it is 0.05, and for every two adjacent brackets the tax at
\* the upper one's min_income exceeds the tax at the lower one's max_income
\* by one currency unit times the upper bracket's rate.
C3_InclusiveBoundaries ==
    /\ \A k \in 1..Len(tax_out) :
          /\ tax_in[k] = 33000000 => tax_out[k] = 0
          /\ tax_in[k] = 33000100 => tax_out[k] = 5
    /\ Len(tax_out) = 2 =>
          \A i \in 1..(Len(brackets) - 1) :
              (tax_in[1] = 100 * brackets[i].max_income
                 /\ tax_in[2] = 100 * brackets[i + 1].min_income)
              => tax_out[2] - tax_out[1] = RateCentsPerUnit(brackets[i + 1])

\* both calls made, at the two sides of the boundary between the fourth and the
\* fifth bracket, one unit of income apart and 26 cents of tax apart
C3_Witness ==
    /\ Len(tax_out) = 2
    /\ tax_in = <<178973300, 178973400>>
    /\ tax_out[2] = tax_out[1] + 26

\* C4: the annual tax is monotone: a lower income never pays more tax
C4_Monotone ==
    Len(tax_out) = 2 =>
        /\ tax_in[1] < tax_in[2] => tax_out[1] <= tax_out[2]
        /\ tax_in[2] < tax_in[1] => tax_out[2] <= tax_out[1]

\* two incomes on the two sides of a bracket boundary, the higher taxed more
C4_Witness ==
    /\ Len(tax_out) = 2
    /\ tax_in = <<178973300, 178973400>>
    /\ tax_out[1] < tax_out[2]

\* C5: for every gross salary and every reduction fraction in [0,1] the
\* monthly tax with the reduction is at most the monthly tax without it
C5_ReductionNeverRaisesTax ==
    (/\ Len(mtax_out) = 2
     /\ mtax_in[1].gross = mtax_in[2].gross
     /\ mtax_in[2].reduction = 0)
    => mtax_out[1] <= mtax_out[2]

\* the same gross salary with a 25% reduction and without: the reduction
\* lowers the tax
C5_Witness ==
    /\ Len(mtax_out) = 2
    /\ mtax_in[1] = [gross |-> 56500000, reduction |-> 25]
    /\ mtax_in[2] = [gross |-> 56500000, reduction |-> 0]
    /\ mtax_out[1] < mtax_out[2]

\* C6: calculate_annual_tax returns 0 for every income <= 0 and never a
\* negative tax
C6_NoNegativeTax ==
    \A k \in 1..Len(tax_out) :
        /\ tax_out[k] >= 0
        /\ tax_in[k] <= 0 => tax_out[k] = 0

\* a call with a negative income and one with a positive income below the
\* second bracket have both returned 0
C6_Witness ==
    /\ Len(tax_out) = 2
    /\ tax_in = <<-50000000, 10000000>>
    /\ tax_out = <<0, 0>>

(***************************************************************************)
(* Claims about the payroll pipeline                                       *)
(***************************************************************************)
\* both calls of the run have returned a PayrollResult
BothPaid == Len(pay_out) = 2 /\ ~pay_out[1].raised /\ ~pay_out[2].raised

\* the two inputs of the run differ in exactly one of the four amounts the
\* contribution base excludes
DifferOnlyInExcluded ==
    LET a == pay_in[1]
        b == pay_in[2]
    IN  \/ a.risk_allowance # b.risk_allowance
           /\ [a EXCEPT !.risk_allowance = b.risk_allowance] = b
        \/ a.responsibility_allowance # b.responsibility_allowance
           /\ [a EXCEPT !.responsibility_allowance = b.responsibility_allowance] = b
        \/ a.overtime_amount # b.overtime_amount
           /\ [a EXCEPT !.overtime_amount = b.overtime_amount] = b
        \/ a.bonus_amount # b.bonus_amount
           /\ [a EXCEPT !.bonus_amount = b.bonus_amount] = b

\* C7: two PayrollInputs that differ only in risk_allowance (or only in
\* responsibility_allowance, overtime_amount or bonus_amount) yield the same
\* inps_employee, amo_employee, inps_employer and amo_employer, and
\* different gross_salary and total_cost.
C7_ExcludedFromContributionBase ==
    (BothPaid /\ DifferOnlyInExcluded) =>
        /\ pay_out[1].inps_employee = pay_out[2].inps_employee
        /\ pay_out[1].amo_employee = pay_out[2].amo_employee
        /\ pay_out[1].inps_employer = pay_out[2].inps_employer
        /\ pay_out[1].amo_employer = pay_out[2].amo_employer
        /\ pay_out[1].gross_salary # pay_out[2].gross_salary
        /\ pay_out[1].total_cost # pay_out[2].total_cost

\* two calls that differ only in the risk allowance, with a non-zero
\* contribution: the same INPS, another gross salary
C7_Witness ==
    /\ BothPaid
    /\ pay_in[1].base_salary = 50000000 /\ pay_in[1].days_absent = 13
    /\ pay_in[1].risk_allowance = 0 /\ pay_in[2].risk_allowance = 1000000
    /\ [pay_in[1] EXCEPT !.risk_allowance = 1000000] = pay_in[2]
    /\ pay_out[1].inps_employee = pay_out[2].inps_employee
    /\ pay_out[1].inps_employee > 0
    /\ pay_out[2].gross_salary = pay_out[1].gross_salary + 1000000

\* base_salary * (26 - days_absent) / 26, and 0 from 26 days absent on, in cents
ExpectedAdjustedBase(base_salary, days_absent) ==
    IF days_absent >= standard_days THEN 0
    ELSE Round2(QScale(QCents(base_salary), standard_days - days_absent, standard_days))

\* C8: for every base_salary >= 0 and days_absent >= 0, also beyond the
\* 26-day month, the adjusted base salary is >= 0; it is base_salary when
\* days_absent = 0 and max(0, base_salary - base_salary / 26 * days_absent)
\* otherwise, whatever days_worked is.
C8_AdjustedBaseNeverNegative ==
    /\ \A k \in 1..Len(pay_out) :
          (~pay_out[k].raised /\ pay_in[k].base_salary >= 0 /\ pay_in[k].days_absent >= 0)
          => /\ pay_out[k].adjusted_base_salary >= 0
             /\ pay_in[k].days_absent = 0
                  => pay_out[k].adjusted_base_salary = pay_in[k].base_salary
             /\ pay_out[k].adjusted_base_salary =
                  ExpectedAdjustedBase(pay_in[k].base_salary, pay_in[k].days_absent)
    /\ (BothPaid /\ pay_in[1].base_salary = pay_in[2].base_salary
                 /\ pay_in[1].days_absent = pay_in[2].days_absent)
          => pay_out[1].adjusted_base_salary = pay_out[2].adjusted_base_salary

\* 40 days absent on a salary of 500000: the adjusted base is 0, with 26 and
\* with 13 days worked
C8_Witness ==
    /\ BothPaid
    /\ pay_in[1].base_salary = 50000000 /\ pay_in[2].base_salary = 50000000
    /\ pay_in[1].days_absent = MaxDaysAbsent /\ pay_in[2].days_absent = MaxDaysAbsent
    /\ pay_in[1].days_worked = 26 /\ pay_in[2].days_worked = 13
    /\ pay_out[1].adjusted_base_salary = 0 /\ pay_out[2].adjusted_base_salary = 0

\* C9: the transport allowance is 10% of the adjusted base salary when and
\* only when the input transport_allowance is zero; a non-zero input is used
\* as given, and every other allowance passes through unchanged.
C9_TransportDefault ==
    \A k \in 1..Len(pay_out) :
        ~pay_out[k].raised =>
            LET i == pay_in[k]
                r == pay_out[k]
            IN  /\ i.transport_allowance = 0 =>
                      r.transport_allowance =
                          Round2(QScale(calculate_adjusted_base(QCents(i.base_salary),
                                            i.days_worked, i.days_absent), 1, 10))
                /\ i.transport_allowance # 0 =>
                      r.transport_allowance = i.transport_allowance
                /\ r.family_allowance = i.family_allowance
                /\ r.responsibility_allowance = i.responsibility_allowance
                /\ r.risk_allowance = i.risk_allowance
                /\ r.housing_allowance = i.housing_allowance
                /\ r.overtime_amount = i.overtime_amount
                /\ r.bonus_amount = i.bonus_amount
                /\ r.ind_spec_1973 = i.ind_spec_1973
                /\ r.cher_vie_1974 = i.cher_vie_1974

\* the same salary and absences without and with a transport input: 10% of
\* the halved salary in the first call, the input in the second
C9_Witness ==
    /\ BothPaid
    /\ pay_in[1].base_salary = 50000000 /\ pay_in[1].days_absent = 13
    /\ pay_in[1].transport_allowance = 0
    /\ pay_out[1].transport_allowance = 2500000
    /\ pay_in[2] = [pay_in[1] EXCEPT !.transport_allowance = 2000000]
    /\ pay_out[2].transport_allowance = 2000000

\* gross_salary = adjusted base salary + total allowances, the sum computed
\* before the result is rounded
GrossIsBasePlusAllowances(i, r) ==
    LET adjusted_base == calculate_adjusted_base(QCents(i.base_salary),
                             i.days_worked, i.days_absent)
        transport == IF i.transport_allowance # 0 THEN QCents(i.transport_allowance)
                     ELSE QScale(adjusted_base, 1, 10)
        others == i.family_allowance + i.responsibility_allowance + i.risk_allowance
                  + i.housing_allowance + i.overtime_amount + i.bonus_amount
                  + i.ind_spec_1973 + i.cher_vie_1974
    IN  r.gross_salary = Round2(QAdd(adjusted_base, QAdd(transport, QCents(others))))

\* C10 as stated: total_allowances is the sum of the eight allowance fields
\* of the result (transport, family, responsibility, risk, housing, overtime
\* and the two historical allowances), and gross_salary = adjusted base
\* salary + total_allowances.
C10_EightSummands ==
    \A k \in 1..Len(pay_out) :
        ~pay_out[k].raised =>
            LET r == pay_out[k]
            IN  /\ r.total_allowances =
                      r.transport_allowance + r.family_allowance
                      + r.responsibility_allowance + r.risk_allowance
                      + r.housing_allowance + r.overtime_amount
                      + r.ind_spec_1973 + r.cher_vie_1974
                /\ GrossIsBasePlusAllowances(pay_in[k], r)

\* C10 amended: total_allowances is the sum of the nine allowance and bonus
\* fields of the result, bonus_amount among them, and gross_salary =
\* adjusted base salary + total_allowances.
C10_NineSummands ==
    \A k \in 1..Len(pay_out) :
        ~pay_out[k].raised =>
            LET r == pay_out[k]
            IN  /\ r.total_allowances =
                      r.transport_allowance + r.family_allowance
                      + r.responsibility_allowance + r.risk_allowance
                      + r.housing_allowance + r.overtime_amount + r.bonus_amount
                      + r.ind_spec_1973 + r.cher_vie_1974
                /\ GrossIsBasePlusAllowances(pay_in[k], r)

\* a call with all nine amounts set, one day absent and a fractional
\* adjusted base salary has returned
C10_Witness ==
    /\ Len(pay_out) >= 1 /\ ~pay_out[1].raised
    /\ pay_in[1].base_salary = 10001200 /\ pay_in[1].days_absent = 1
    /\ pay_in[1].bonus_amount = 700000 /\ pay_in[1].housing_allowance = 4000000
    /\ pay_out[1].total_allowances = 11200000
    /\ pay_out[1].gross_salary = pay_out[1].total_allowances + 9616538

\* ---------------------------------------------------------------------
\* Net salary, deductions and employer cost
\* ---------------------------------------------------------------------

\* the unrounded gross salary of an input: adjusted base, transport (given
\* or defaulted) and the other eight allowance and bonus amounts
ExpectedGross(i) ==
    LET adjusted_base == calculate_adjusted_base(QCents(i.base_salary),
                             i.days_worked, i.days_absent)
        transport == IF i.transport_allowance # 0 THEN QCents(i.transport_allowance)
                     ELSE QScale(adjusted_base, 1, 10)
        others == i.family_allowance + i.responsibility_allowance + i.risk_allowance
                  + i.housing_allowance + i.overtime_amount + i.bonus_amount
                  + i.ind_spec_1973 + i.cher_vie_1974
    IN  QAdd(adjusted_base, QAdd(transport, QCents(others)))

\* the unrounded contribution base of an input: adjusted base, transport,
\* family allowance and the two historical allowances
ExpectedContributionBase(i) ==
    LET adjusted_base == calculate_adjusted_base(QCents(i.base_salary),
                             i.days_worked, i.days_absent)
        transport == IF i.transport_allowance # 0 THEN QCents(i.transport_allowance)
                     ELSE QScale(adjusted_base, 1, 10)
    IN  QAdd(adjusted_base, QAdd(transport,
             QCents(i.family_allowance + i.ind_spec_1973 + i.cher_vie_1974)))

\* the loan, advance and other deductions of an input, in cents
FreeFormDeductions(i) ==
    i.loan_deduction + i.advance_deduction + i.other_deductions

\* the two inputs of the run differ in the loan, advance or other
\* deductions and in nothing else
DifferOnlyInDeductions ==
    LET a == pay_in[1]
        b == pay_in[2]
    IN  /\ a # b
        /\ [a EXCEPT !.loan_deduction = b.loan_deduction,
                     !.advance_deduction = b.advance_deduction,
                     !.other_deductions = b.other_deductions] = b

\* C11: net_salary = gross - employee INPS - employee AMO - income tax and
\* does not depend on the loan, advance or other deductions; net_to_pay =
\* net_salary - loan - advance - other; total_deductions = INPS + AMO + tax +
\* the three free-form deductions, so gross - total_deductions = net_to_pay
\* (each amount rounded to cents from its own unrounded formula).
C11_NetAndDeductions ==
    /\ \A k \in 1..Len(pay_out) :
           ~pay_out[k].raised =>
               LET i == pay_in[k]
                   r == pay_out[k]
                   gross == ExpectedGross(i)
                   social == QScale(ExpectedContributionBase(i),
                                    INPS_EMPLOYEE_RATE + AMO_EMPLOYEE_RATE, 10000)
                   tax == QCents(r.income_tax_net)
                   three == QCents(FreeFormDeductions(i))
                   deductions == QAdd(QAdd(social, tax), three)
               IN  /\ r.net_salary = Round2(QSub(QSub(gross, social), tax))
                   /\ r.net_to_pay = Round2(QSub(QSub(QSub(gross, social), tax), three))
                   /\ r.total_deductions = Round2(deductions)
                   /\ r.net_to_pay = Round2(QSub(gross, deductions))
    /\ (BothPaid /\ DifferOnlyInDeductions) =>
           /\ pay_out[1].net_salary = pay_out[2].net_salary
           /\ pay_out[1].net_to_pay # pay_out[2].net_to_pay

\* two calls that differ only in the three free-form deductions have
\* returned: the same net salary, a net to pay 23000.00 lower
C11_Witness ==
    /\ BothPaid /\ DifferOnlyInDeductions
    /\ pay_in[1].base_salary = 50000000 /\ pay_in[1].days_absent = 1
    /\ FreeFormDeductions(pay_in[1]) = 0
    /\ FreeFormDeductions(pay_in[2]) = 2300000
    /\ pay_out[1].net_salary > 0
    /\ pay_out[2].net_salary = pay_out[1].net_salary
    /\ pay_out[2].net_to_pay = pay_out[1].net_to_pay - 2300000
    /\ pay_out[2].total_deductions = pay_out[1].total_deductions + 2300000

\* C12: each of the four labor taxes is a fixed percentage (1%, 2%, 2%,
\* 3.5%) of the gross salary, not of the contribution base; employer INPS and
\* AMO are percentages of the contribution base; total_employer_cost =
\* inps_employer + amo_employer + the four labor taxes, and total_cost =
\* gross_salary + total_employer_cost.
C12_EmployerCost ==
    \A k \in 1..Len(pay_out) :
        ~pay_out[k].raised =>
            LET i == pay_in[k]
                r == pay_out[k]
                gross == ExpectedGross(i)
                base == ExpectedContributionBase(i)
                social == QScale(base, INPS_EMPLOYER_RATE + AMO_EMPLOYER_RATE, 10000)
                labor == QScale(gross, 10 + 20 + 20 + 35, 1000)
            IN  /\ r.taxe_logement = Round2(QScale(gross, 1, 100))
                /\ r.taxe_formation = Round2(QScale(gross, 2, 100))
                /\ r.taxe_emploi = Round2(QScale(gross, 2, 100))
                /\ r.contribution_cfe = Round2(QScale(gross, 35, 1000))
                /\ r.inps_employer = Round2(QScale(base, INPS_EMPLOYER_RATE, 10000))
                /\ r.amo_employer = Round2(QScale(base, AMO_EMPLOYER_RATE, 10000))
                /\ r.total_employer_cost = Round2(QAdd(social, labor))
                /\ r.total_cost = Round2(QAdd(gross, QAdd(social, labor)))
                /\ QLess(base, gross) =>
                       /\ r.taxe_logement # Round2(QScale(base, 1, 100))
                       /\ r.contribution_cfe # Round2(QScale(base, 35, 1000))
                       /\ r.inps_employer # Round2(QScale(gross, INPS_EMPLOYER_RATE, 10000))

\* a call with a risk allowance has returned: gross 560000.00 over a
\* contribution base of 550000.00, labor taxes on the first and employer
\* contributions on the second
C12_Witness ==
    /\ Len(pay_out) >= 1 /\ ~pay_out[1].raised
    /\ pay_in[1].base_salary = 50000000 /\ pay_in[1].days_absent = 0
    /\ pay_in[1].risk_allowance = 1000000 /\ pay_in[1].bonus_amount = 0
    /\ pay_out[1].gross_salary = 56000000
    /\ pay_out[1].taxe_logement = 560000
    /\ pay_out[1].taxe_formation = 1120000
    /\ pay_out[1].taxe_emploi = 1120000
    /\ pay_out[1].contribution_cfe = 1960000
    /\ pay_out[1].inps_employer = 9020000
    /\ pay_out[1].amo_employer = 1925000
    /\ pay_out[1].total_employer_cost = 15705000
    /\ pay_out[1].total_cost = 71705000

\* ---------------------------------------------------------------------
\* Status code lookups
\* ---------------------------------------------------------------------

\* the lookups were asked about a spelling of <letter><n>
AskedAbout(letter, n) == status_in[1].status_code \in Spellings(letter, n)

\* C15: calculate_family_allowance is a step function of the dependents
\* count n of a status code <letter><n>: for C 15000 for n in 0..1, 25000 for
\* 2..4, 35000 for n >= 5; for M 25000 for 0..2, 35000 for 3..4, 45000 for
\* 5..7, 55000 for n >= 8; each n >= 0 falls in exactly one range.
C15_FamilyAllowanceSteps ==
    \A n \in 0..MaxDependents :
        Len(allowance_out) = 1 =>
            /\ AskedAbout("C", n) =>
                   /\ allowance_out[1] \in {1500000, 2500000, 3500000}
                   /\ allowance_out[1] = 1500000 <=> n \in 0..1
                   /\ allowance_out[1] = 2500000 <=> n \in 2..4
                   /\ allowance_out[1] = 3500000 <=> n >= 5
            /\ AskedAbout("M", n) =>
                   /\ allowance_out[1] \in {2500000, 3500000, 4500000, 5500000}
                   /\ allowance_out[1] = 2500000 <=> n \in 0..2
                   /\ allowance_out[1] = 3500000 <=> n \in 3..4
                   /\ allowance_out[1] = 4500000 <=> n \in 5..7
                   /\ allowance_out[1] = 5500000 <=> n >= 8

\* the allowance of "M08" was looked up: 55000.00
C15_Witness ==
    /\ status_in[1].status_code = <<"M", "0", "8">>
    /\ allowance_out = <<5500000>>

\* C16: get_family_charge_reduction is a step function of the dependents
\* count n: for C 0% for n in 0..4, 10% for 5..9, 15% for 10..15; for M 10%
\* for 0..4, 20% for 5..9, 25% for 10..20; every result lies in [0%, 25%],
\* and a count above the last listed range (C16+, M21+) yields 0%.
C16_ReductionSteps ==
    Len(reduction_out) = 1 =>
        /\ reduction_out[1] # IndexError =>
               0 <= reduction_out[1] /\ reduction_out[1] <= 25
        /\ \A n \in 0..MaxDependents :
               /\ AskedAbout("C", n) =>
                      reduction_out[1] = (IF n <= 4 THEN 0 ELSE IF n <= 9 THEN 10
                                          ELSE IF n <= 15 THEN 15 ELSE 0)
               /\ AskedAbout("M", n) =>
                      reduction_out[1] = (IF n <= 4 THEN 10 ELSE IF n <= 9 THEN 20
                                          ELSE IF n <= 20 THEN 25 ELSE 0)

\* the reduction of "M21" was looked up: none, one past the last band
C16_Witness ==
    /\ status_in[1].status_code = <<"M", "2", "1">>
    /\ reduction_out = <<0>>

\* C17: for every malformed status code (empty, unknown letter, non-numeric
\* suffix, dependents count outside all listed ranges, or any other string
\* that is not a letter followed by an integer) both lookups return 0 and
\* never raise.
C17_MalformedYieldZero ==
    LET code == status_in[1].status_code
        past_reduction_bands ==
            \E n \in 0..MaxDependents :
                \/ n >= 16 /\ AskedAbout("C", n)
                \/ n >= 21 /\ AskedAbout("M", n)
    IN  /\ (code \in MalformedCodes /\ Len(allowance_out) = 1) => allowance_out[1] = 0
        /\ ((code \in MalformedCodes \/ past_reduction_bands) /\ Len(reduction_out) = 1)
               => reduction_out[1] = 0

\* ---------------------------------------------------------------------
\* End-to-end scenarios
\* ---------------------------------------------------------------------

\* the scenario's call: base salary 500000, status C0, a full month, no
\* other allowance given
StandardMonthCall(a) ==
    /\ a.base_salary = 50000000
    /\ a.status_code = <<"C", "0">>
    /\ a.kwargs \in { << >>, [days_worked |-> 26, days_absent |-> 0] }

\* C13: for base_salary = 500000, status C0, days_worked = 26, days_absent
\* = 0 and all other allowances 0, the payroll is: transport 50000, family
\* allowance 15000 (via lookup), gross 565000, contribution base 565000,
\* inps_employee 20340, amo_employee 17289, and the income tax is the
\* monthly share of the annual tax on 6780000 with no reduction, an income
\* in the top (unbounded) bracket.
C13_EndToEnd ==
    \A k \in 1..Len(quick_out) :
        StandardMonthCall(quick_in[k]) =>
            LET r == quick_out[k]
                annual == QInt(6780000)
                top == Len(DEFAULT_BRACKETS)
            IN  /\ ~r.raised
                /\ r.adjusted_base_salary = 50000000
                /\ r.transport_allowance = 5000000
                /\ r.family_allowance = 1500000
                /\ r.total_allowances = 6500000
                /\ r.gross_salary = 56500000
                /\ r.inps_employee = 2034000
                /\ r.amo_employee = 1728900
                /\ r.inps_employer = Round2(QScale(QInt(565000), INPS_EMPLOYER_RATE, 10000))
                /\ r.income_tax_net =
                       Round2(QScale(QCents(calculate_annual_tax(DEFAULT_BRACKETS, annual)),
                                     1, 12))
                /\ containing(DEFAULT_BRACKETS, annual) = {top}
                /\ DEFAULT_BRACKETS[top].max_income = None

\* the scenario's call has returned, with an income tax of 159082.65
C13_Witness ==
    /\ Len(quick_out) = 1
    /\ StandardMonthCall(quick_in[1]) /\ quick_in[1].kwargs = << >>
    /\ quick_out[1].family_allowance = 1500000
    /\ quick_out[1].gross_salary = 56500000
    /\ quick_out[1].income_tax_net = 15908265
    /\ quick_out[1].net_salary = 36828835

\* C14: with days_absent = 13 the adjusted base salary is exactly half of
\* base_salary, and every downstream figure (default transport, gross
\* salary, contribution base and the contributions computed from it) is
\* derived from that halved base, not from the original base salary.
C14_HalfMonthAbsent ==
    \A k \in 1..Len(pay_out) :
        (~pay_out[k].raised /\ pay_in[k].days_absent = 13) =>
            LET i == pay_in[k]
                r == pay_out[k]
                half == QScale(QCents(i.base_salary), 1, 2)
                transport == IF i.transport_allowance # 0 THEN QCents(i.transport_allowance)
                             ELSE QScale(half, 1, 10)
                gross == QAdd(QAdd(half, transport),
                              QCents(i.family_allowance + i.responsibility_allowance
                                     + i.risk_allowance + i.housing_allowance
                                     + i.overtime_amount + i.bonus_amount
                                     + i.ind_spec_1973 + i.cher_vie_1974))
                base == QAdd(QAdd(half, transport),
                             QCents(i.family_allowance + i.ind_spec_1973 + i.cher_vie_1974))
            IN  /\ 2 * r.adjusted_base_salary = i.base_salary
                /\ r.transport_allowance = Round2(transport)
                /\ r.gross_salary = Round2(gross)
                /\ r.inps_employee = Round2(QScale(base, INPS_EMPLOYEE_RATE, 10000))
                /\ r.amo_employee = Round2(QScale(base, AMO_EMPLOYEE_RATE, 10000))
                /\ r.inps_employer = Round2(QScale(base, INPS_EMPLOYER_RATE, 10000))
                /\ r.amo_employer = Round2(QScale(base, AMO_EMPLOYER_RATE, 10000))
                /\ (i.base_salary > 0 /\ i.transport_allowance = 0) =>
                       r.transport_allowance # Round2(QScale(QCents(i.base_salary), 1, 10))

\* a salary of 500000 with 13 days absent has been computed: adjusted base
\* 250000, transport 25000, gross 275000, contributions on 275000
C14_Witness ==
    /\ Len(pay_out) >= 1 /\ ~pay_out[1].raised
    /\ pay_in[1] = [PayrollInput("E1", 50000000, <<"C", "0">>) EXCEPT !.days_absent = 13]
    /\ pay_out[1].adjusted_base_salary = 25000000
    /\ pay_out[1].transport_allowance = 2500000
    /\ pay_out[1].gross_salary = 27500000
    /\ pay_out[1].inps_employee = 990000
    /\ pay_out[1].amo_employee = 841500
    /\ pay_out[1].inps_employer = 4510000

\* ---------------------------------------------------------------------
\* Purity of the pipeline
\* ---------------------------------------------------------------------

SavedSchedule ==
    [i \in 1..Len(tax_brackets) |->
        [min_income |-> tax_brackets[i].min_income,
         max_income |-> tax_brackets[i].max_income,
         tax_rate |-> tax_brackets[i].tax_rate,
         cumulative_tax |-> Round2(tax_brackets[i].cumulative_tax)]]

\* C19: every payroll computation uses the bracket schedule current at the
\* time of the call: after an administrator saves edited bracket rates,
\* every subsequent payroll calculation computes income tax with the saved
\* rates, never with a table cached or fixed earlier.
C19_UsesSavedSchedule ==
    [][ Len(pay_out') > Len(pay_out) =>
            LET k == Len(pay_out')
            IN  pay_out'[k].income_tax_net =
                    calculate(SavedSchedule, pay_in[k]).income_tax_net ]_vars

\* ---------------------------------------------------------------------
\* Stored payroll records
\* ---------------------------------------------------------------------

\* the rows of a table for one (period_id, employee_id)
RowsOf(records, period_id, employee_id) ==
    { r \in records : r.period_id = period_id /\ r.employee_id = employee_id }

\* payroll_records holds at most one row for each (period_id, employee_id)
AtMostOneRecordPerKey ==
    \A r1 \in payroll_records, r2 \in payroll_records :
        (r1.period_id = r2.period_id /\ r1.employee_id = r2.employee_id) => r1 = r2

\* a create_payroll_record step for a key that has a row keeps every row's
\* id and key, leaves the other rows as they are and returns the id of the
\* key's row; for a key without a row it adds one row and returns its id
CreateOverwritesInPlace ==
    last_call'.op = "create_payroll_record" =>
        LET before == RowsOf(payroll_records, last_call'.period_id, last_call'.employee_id)
            after == RowsOf(payroll_records', last_call'.period_id, last_call'.employee_id)
        IN  /\ payroll_records' \ after = payroll_records \ before
            /\ before # {} =>
                   /\ { r.record_id : r \in after } = { r.record_id : r \in before }
                   /\ last_call'.returned \in { r.record_id : r \in before }
            /\ (before = {} /\ last_call'.returned # ProgrammingError) =>
                   /\ Cardinality(after) = 1
                   /\ \A r \in after : r.record_id = last_call'.returned
                   /\ \A r \in payroll_records : r.record_id # last_call'.returned

\* C20: after any sequence of create_payroll_record, update_payroll_record,
\* initialize_period_with_employees and delete operations, payroll_records
\* holds at most one record for each (period_id, employee_id) pair; calling
\* create_payroll_record for a key that already has a record overwrites
\* that record in place and returns its existing record_id.
C20_AtMostOneRecordPerKey ==
    [] AtMostOneRecordPerKey /\ [][CreateOverwritesInPlace]_vars

\* create_payroll_record returned record 1 for a key while the table holds a
\* younger row 2: the call found the row and overwrote it, with the values
\* of the short dictionary
C20_Witness ==
    /\ last_call.op = "create_payroll_record" /\ last_call.period_id = 1
    /\ last_call.employee_id = "E1" /\ last_call.returned = 1
    /\ \E r \in payroll_records : r.record_id = 2 /\ r.employee_id = "E2"
    /\ \E r \in payroll_records :
           /\ r.record_id = 1 /\ r.period_id = 1 /\ r.employee_id = "E1"
           /\ r.cols.base_salary = 30000000 /\ r.cols.gross_salary = 33000000
           /\ r.cols.days_worked = 26 /\ r.cols.net_to_pay = 0
    /\ Cardinality(payroll_records) = 2

\* C21: whenever create_payroll_record returns a record id for a key that
\* already had a record, the stored record holds the values of the
\* payroll_data just passed: the column values a fresh insert of that data
\* would have stored.
C21_StoresLatestData ==
    [][ \A period_id \in PeriodIds, employee_id \in ActiveEmployees,
           payroll_data \in PayrollDatas :
            ( /\ CreatePayrollRecord(period_id, employee_id, payroll_data)
              /\ RowsOf(payroll_records, period_id, employee_id) # {}
              /\ last_call'.returned \in 1..MaxRecordId ) =>
                \A r \in payroll_records' :
                    r.record_id = last_call'.returned =>
                        r.cols = insert_columns(payroll_data) ]_vars

\* C22: in calculate_all a failure while computing one employee does not
\* abort the batch: every record of the period's list is attempted exactly
\* once, in the order of the list, whatever happened to the records before
\* it.
C22_EveryRecordAttemptedOnce ==
    report.handler = "calculate_all" =>
        /\ report.attempted = report.listed
        /\ Len(report.outcomes) = Len(report.listed)

\* Calculate All on a period of two records: the first employee's
\* calculation failed, the second was still attempted and stored
C22_Witness ==
    /\ report.handler = "calculate_all"
    /\ report.listed = <<"E1", "E2">>
    /\ report.outcomes = <<"error", "stored">>
    /\ report.attempted = <<"E1", "E2">>

\* C23: at the end of calculate_all every employee whose calculation failed
\* (not found, or an exception while computing or storing) is in the error
\* list reported to the user, and the reported success count counts only
\* the employees whose record was recomputed and stored.
C23_FailuresReported ==
    report.handler = "calculate_all" =>
        /\ \A i \in 1..Len(report.outcomes) :
               report.outcomes[i] # "stored" =>
                   \E j \in 1..Len(report.errors) :
                       report.errors[j] = report.attempted[i]
        /\ report.count =
               Cardinality({ i \in 1..Len(report.outcomes) : report.outcomes[i] = "stored" })

\* C24: once finalize_period has set is_finalized for a period, no
\* operation of the payroll screen changes a payroll record of that period.
C24_FinalizedPeriodLocked ==
    [][ \A p \in payroll_periods :
            p.is_finalized = 1 =>
                { r \in payroll_records' : r.period_id = p.period_id }
                    = { r \in payroll_records : r.period_id = p.period_id } ]_vars

\* the row of payroll_records a handler of the screen recalculated and stored
recalculated_rows ==
    IF /\ report.handler \in {"calculate_single_record", "edit_payroll_record"}
       /\ report.outcomes = <<"stored">>
    THEN { r \in payroll_records : /\ r.period_id = screen.current_period.period_id
                                   /\ r.employee_id = report.listed[1] }
    ELSE {}

\* C28: when the user changes risk premium, vehicle allowance, overtime and
\* loan amount in the edit dialog and accepts, the recalculation uses the
\* edited values: the stored record holds them, and its gross salary and
\* net-to-pay reflect them.
C28_EditedValuesUsed ==
    (report.handler = "edit_payroll_record" /\ "risk_input" \in DOMAIN report.edit) =>
        \A r \in recalculated_rows :
            /\ r.cols.risk_premium = report.edit.risk_input
            /\ r.cols.vehicle_allowance = report.edit.vehicle_input
            /\ r.cols.overtime_pay = report.edit.overtime_input
            /\ r.cols.advances_loans_deduction = report.edit.loan_input
            /\ r.cols.gross_salary >= report.edit.risk_input + report.edit.vehicle_input
                                          + report.edit.overtime_input
            /\ r.cols.net_to_pay = r.cols.net_salary - report.edit.loan_input

\* C29: after any sequence of edits and recalculations of a payroll record
\* the stored transport allowance is the auto-calculated one: 10% of the
\* adjusted base salary that the record's base salary and days absent give.
C29_TransportAutoCalculated ==
    \A r \in recalculated_rows :
        r.cols.ind_transport =
            Round2(transport_allowance(0,
                       calculate_adjusted_base(QCents(r.cols.base_salary),
                                               r.cols.days_worked, r.cols.days_absent)))

\* C30: recalculating a stored payroll record a second time with no edit in
\* between leaves every stored field as it was after the first
\* recalculation.
C30_RecalculationIdempotent ==
    [][ \A i \in 1..MaxRecordId :
            ( /\ recalculated_rows # {}
              /\ i \in 1..Len(screen.payroll_records)
              /\ screen.payroll_records[i]["employee_id"] = report.listed[1]
              /\ CalculateSingleRecord(i) ) =>
                payroll_records' = payroll_records ]_vars

\* an amount in cents is a whole number of units
whole_unit(amount) == amount % 100 = 0

\* the salary, allowance and deduction amounts of an input are whole units
whole_unit_input(input_data) ==
    \A k \in { "base_salary", "transport_allowance", "family_allowance",
                "responsibility_allowance", "risk_allowance", "housing_allowance",
                "overtime_amount", "bonus_amount", "ind_spec_1973", "cher_vie_1974",
                "loan_deduction", "advance_deduction", "other_deductions" } :
        whole_unit(input_data[k])

\* the cents by which the reported net salary differs from the reported
\* gross salary less the reported INPS, AMO and income tax
net_salary_drift(result) ==
    result.net_salary - (result.gross_salary - result.inps_employee
                         - result.amo_employee - result.income_tax_net)

\* the cents by which the reported net-to-pay differs from the reported
\* net salary less the reported loan, advance and other deductions
net_to_pay_drift(result) ==
    result.net_to_pay - (result.net_salary - result.loan_deduction
                         - result.advance_deduction - result.other_deductions)

\* C26 as stated: in every PayrollResult the reported 2-decimal fields
\* reconcile without a cent of drift, net_salary = gross_salary -
\* inps_employee - amo_employee - income_tax_net and net_to_pay = net_salary
\* - loan_deduction - advance_deduction - other_deductions, for every input
\* with whole-unit salary and allowance amounts.
C26_FieldsReconcileExactly ==
    \A i \in 1..Len(pay_out) :
        (~pay_out[i].raised /\ whole_unit_input(pay_in[i])) =>
            /\ net_salary_drift(pay_out[i]) = 0
            /\ net_to_pay_drift(pay_out[i]) = 0

\* C26 amended: for every input with whole-unit amounts the reported
\* net-to-pay is exactly the reported net salary less the reported loan,
\* advance and other deductions, and the reported net salary is within two
\* cents of the reported gross salary less the reported INPS, AMO and
\* income tax, each field being rounded from its own unrounded value.
C26_FieldsReconcileWithinCents ==
    \A i \in 1..Len(pay_out) :
        (~pay_out[i].raised /\ whole_unit_input(pay_in[i])) =>
            /\ net_salary_drift(pay_out[i]) \in -2..2
            /\ net_to_pay_drift(pay_out[i]) = 0

\* a result for a whole-unit input with deductions whose reported net
\* salary is a cent away from the difference of the reported fields, while
\* its net-to-pay reconciles
C26_Witness ==
    \E i \in 1..Len(pay_out) :
        /\ ~pay_out[i].raised /\ whole_unit_input(pay_in[i])
        /\ pay_in[i].loan_deduction > 0
        /\ net_salary_drift(pay_out[i]) \in {-1, 1}
        /\ net_to_pay_drift(pay_out[i]) = 0

\* the cumulative_tax invariant on the rows of a tax_brackets table: every
\* row after the first holds the cumulative tax of the row before it plus
\* that row's width, bounds included, at that row's rate
cumulative_tax_invariant(rows) ==
    \A i \in 2..Len(rows) :
        rows[i].cumulative_tax =
            QAdd(rows[i - 1].cumulative_tax,
                 QScale(QInt(rows[i - 1].max_income - rows[i - 1].min_income + 1),
                        rows[i - 1].tax_rate, 1000))

\* C27: after the administrator saves edited rates in the tax bracket
\* dialog, the stored table satisfies the cumulative_tax invariant for the
\* saved rates: for every i >= 1, cumulative_tax[i] = cumulative_tax[i-1] +
\* (max_income[i-1] - min_income[i-1] + 1) * rate[i-1], rate and
\* cumulative_tax taken from the table as saved.
C27_CumulativeTaxAfterSave ==
    [][ \A new_rates \in RateEdits :
            SaveBrackets(new_rates) => cumulative_tax_invariant(tax_brackets') ]_vars

====
